---------------------------- MODULE Spec2Model ----------------------------
(***************************************************************************)
(* A model of the rough-renderer repaint engine of                         *)
(* experimental-echarts-roughjs (src/src/rough/Painter.ts, graphic.ts):    *)
(*   - SVGPathRecorder          (graphic.ts 34-103)                        *)
(*   - Layer.createRepaintRects (graphic.ts 682-809)                       *)
(*   - brush and its helpers    (graphic.ts 109-536)                       *)
(*   - RPainter                 (Painter.ts 65-856)                        *)
(* Each component has its own variables and its own specification; a       *)
(* specification leaves the other components' variables unchanged.         *)
(***************************************************************************)
EXTENDS Integers, Sequences, FiniteSets, Bags, TLC

VARIABLES
    parts,      \* SVGPathRecorder.parts: the recorded parts, each a sequence of commands
    recLast,    \* the last recorder call: its name, its arguments, parts before it
    recCalls    \* the number of calls made on this recorder

recVars == <<parts, recLast, recCalls>>

Null == "null"

Max(a, b) == IF a >= b THEN a ELSE b
Min(a, b) == IF a <= b THEN a ELSE b

\* F applied to the value of e
Bind(e, F(_)) == CHOOSE r \in { F(v) : v \in {e} } : TRUE

\* { F(v) : v \in S }, each F(v) computed on its own
Image(F(_), S) == DOMAIN BagOfAll(F, SetToBag(S))

(***************************************************************************)
(* SVGPathRecorder                                                         *)
(*                                                                         *)
(* A part is the sequence of the commands of one template literal, each a  *)
(* letter with its numbers.  getPath formats every command and joins all   *)
(* of them with one blank, which is what parts.join(' ') gives, since the  *)
(* commands inside one part are separated by one blank too.                *)
(*                                                                         *)
(* Angles are exact reals of the form q * (pi/2) + d * 1e-11 with |d|      *)
(* far below pi/2, written [q |-> q, d |-> d]; this keeps the tests        *)
(* against 0, pi, 2*pi, 1e-10 and 2*pi - 1e-6 exact.  A coordinate that    *)
(* the code computes with Math.cos / Math.sin is kept as the term          *)
(* c + r * f(angle), never evaluated.                                      *)
(***************************************************************************)

\* 1e-10, in units of 1e-11 radians (graphic.ts 64)
ARC_DEGENERATE == 10
\* 1e-6, in units of 1e-11 radians (graphic.ts 69)
ARC_FULL_TOL == 100000

Ang(q, d) == [q |-> q, d |-> d]
AngAdd(a, b) == [q |-> a.q + b.q, d |-> a.d + b.d]
AngSub(a, b) == [q |-> a.q - b.q, d |-> a.d - b.d]
AngLt(a, b) == a.q < b.q \/ (a.q = b.q /\ a.d < b.d)
AngGt(a, b) == AngLt(b, a)
AngGe(a, b) == ~AngLt(a, b)
AngZero == Ang(0, 0)
MathPI == Ang(2, 0)
TwoPI == Ang(4, 0)

\* cx + r * Math.cos(a) and cy + r * Math.sin(a)
ArcX(cx, r, a) == [c |-> cx, r |-> r, f |-> "cos", a |-> a]
ArcY(cy, r, a) == [c |-> cy, r |-> r, f |-> "sin", a |-> a]

\* One command of a part: its letter, its plain-number arguments in order,
\* and after them the coordinates computed with Math.cos / Math.sin, if any.
Cmd(letter, nums) == [c |-> letter, a |-> nums, p |-> <<>>]
CmdAt(letter, nums, x, y) == [c |-> letter, a |-> nums, p |-> <<x, y>>]

\* `${v}` for a plain number and for a cos/sin coordinate
FmtNum(v) == ToString(v)
FmtTrig(v) ==
    "(" \o ToString(v.c) \o "+" \o ToString(v.r) \o "*" \o v.f \o "("
        \o ToString(v.a.q) \o "pi/2+" \o ToString(v.a.d) \o "e-11))"

RECURSIVE FmtNums(_)
FmtNums(ns) == IF Len(ns) = 0 THEN "" ELSE " " \o FmtNum(Head(ns)) \o FmtNums(Tail(ns))

RECURSIVE FmtTrigs(_)
FmtTrigs(ns) == IF Len(ns) = 0 THEN "" ELSE " " \o FmtTrig(Head(ns)) \o FmtTrigs(Tail(ns))

FmtCmd(k) == k.c \o FmtNums(k.a) \o FmtTrigs(k.p)

RECURSIVE JoinCmds(_)
JoinCmds(ks) ==
    IF Len(ks) = 0 THEN ""
    ELSE IF Len(ks) = 1 THEN FmtCmd(ks[1])
    ELSE FmtCmd(ks[1]) \o " " \o JoinCmds(Tail(ks))

RECURSIVE FlattenParts(_)
FlattenParts(ps) == IF Len(ps) = 0 THEN <<>> ELSE Head(ps) \o FlattenParts(Tail(ps))

\* getPath(): this.parts.join(' ')
getPath(ps) == JoinCmds(FlattenParts(ps))

moveTo(ps, x, y) == Append(ps, << Cmd("M", <<x, y>>) >>)

lineTo(ps, x, y) == Append(ps, << Cmd("L", <<x, y>>) >>)

bezierCurveTo(ps, x1, y1, x2, y2, x, y) ==
    Append(ps, << Cmd("C", <<x1, y1, x2, y2, x, y>>) >>)

quadraticCurveTo(ps, x1, y1, x, y) == Append(ps, << Cmd("Q", <<x1, y1, x, y>>) >>)

\* rect without the closing Z
rectLeftOpen(ps, x, y, w, h) ==
    Append(ps, << Cmd("M", <<x, y>>), Cmd("L", <<x + w, y>>), Cmd("L", <<x + w, y + h>>),
                  Cmd("L", <<x, y + h>>) >>)

rect(ps, x, y, w, h) ==
    Append(ps, << Cmd("M", <<x, y>>), Cmd("L", <<x + w, y>>), Cmd("L", <<x + w, y + h>>),
                  Cmd("L", <<x, y + h>>), Cmd("Z", <<>>) >>)

closePath(ps) == Append(ps, << Cmd("Z", <<>>) >>)

\* the sweep after the three statements of graphic.ts 58-63
ArcSweep(startAngle, endAngle, anticlockwise) ==
    LET s0 == IF anticlockwise THEN AngSub(startAngle, endAngle)
                               ELSE AngSub(endAngle, startAngle)
        s1 == IF AngLt(s0, AngZero) THEN AngAdd(s0, TwoPI) ELSE s0
    IN  IF AngGt(s1, TwoPI) THEN TwoPI ELSE s1

ArcSweepFlag(anticlockwise) == IF anticlockwise THEN 0 ELSE 1

\* the large-arc flag set from a sweep of pi on
ArcLargeFlagFromPi(sweep) == IF AngGe(sweep, MathPI) THEN 1 ELSE 0

ArcLargeFlag(sweep) == IF AngGt(sweep, MathPI) THEN 1 ELSE 0

\* a test that takes only a sweep of exactly zero for degenerate
ArcIsDegenerateAtZero(sweep) == sweep = AngZero

ArcIsDegenerate(sweep) == AngLt(sweep, Ang(0, ARC_DEGENERATE))

\* a test for the full turn without the tolerance of 1e-6
ArcIsFullExact(sweep) == AngGe(sweep, TwoPI)

ArcIsFull(sweep) == AngGe(sweep, AngSub(TwoPI, Ang(0, ARC_FULL_TOL)))

arc(ps, cx, cy, r, startAngle, endAngle, anticlockwise) ==
    LET startX == ArcX(cx, r, startAngle)
        startY == ArcY(cy, r, startAngle)
        sweep == ArcSweep(startAngle, endAngle, anticlockwise)
        sweepFlag == ArcSweepFlag(anticlockwise)
        midAngle == AngAdd(startAngle, MathPI)
        midX == ArcX(cx, r, midAngle)
        midY == ArcY(cy, r, midAngle)
        endX == ArcX(cx, r, endAngle)
        endY == ArcY(cy, r, endAngle)
        largeArcFlag == ArcLargeFlag(sweep)
    IN  IF ArcIsDegenerate(sweep) THEN ps
        ELSE IF ArcIsFull(sweep)
        THEN ps \o << << CmdAt("M", <<>>, startX, startY) >>,
                      << CmdAt("A", <<r, r, 0, 1, sweepFlag>>, midX, midY) >>,
                      << CmdAt("A", <<r, r, 0, 1, sweepFlag>>, startX, startY) >> >>
        ELSE ps \o << << CmdAt("L", <<>>, startX, startY) >>,
                      << CmdAt("A", <<r, r, 0, largeArcFlag, sweepFlag>>, endX, endY) >> >>

\* Bounds and inputs of the recorder specification
MaxCalls == 2
Coords == {0, 10}
BezierArgs == { <<1, 2, 3, 4, 5, 6>>, <<0, 0, 10, 0, 10, 10>>, <<6, 5, 4, 3, 2, 1>> }
QuadArgs == { <<1, 2, 3, 4>>, <<10, 0, 10, 10>>, <<4, 3, 2, 1>> }
Radii == {5}
StartAngles == { Ang(0, 0), Ang(1, 0) }
\* sweeps around every threshold: 0, 1e-10, pi, 2*pi - 1e-6, 2*pi, and beyond
SweepDeltas == { Ang(0, 0), Ang(0, 9), Ang(0, 10), Ang(1, 0), Ang(2, 0), Ang(2, 1),
                 Ang(3, 0), Ang(4, 0 - 100001), Ang(4, 0 - 100000), Ang(4, 0),
                 Ang(5, 0), Ang(0 - 1, 0), Ang(0, 0 - 5) }

RecCall(op, args) == [op |-> op, args |-> args, before |-> parts]

RecInit ==
    /\ parts = <<>>
    /\ recLast = [op |-> "new", args |-> <<>>, before |-> <<>>]
    /\ recCalls = 0

RecMoveTo ==
    /\ recCalls < MaxCalls
    /\ recCalls' = recCalls + 1
    /\ \E x, y \in Coords :
        /\ parts' = moveTo(parts, x, y)
        /\ recLast' = RecCall("moveTo", <<x, y>>)

RecLineTo ==
    /\ recCalls < MaxCalls
    /\ recCalls' = recCalls + 1
    /\ \E x, y \in Coords :
        /\ parts' = lineTo(parts, x, y)
        /\ recLast' = RecCall("lineTo", <<x, y>>)

RecBezierCurveTo ==
    /\ recCalls < MaxCalls
    /\ recCalls' = recCalls + 1
    /\ \E a \in BezierArgs :
        /\ parts' = bezierCurveTo(parts, a[1], a[2], a[3], a[4], a[5], a[6])
        /\ recLast' = RecCall("bezierCurveTo", a)

RecQuadraticCurveTo ==
    /\ recCalls < MaxCalls
    /\ recCalls' = recCalls + 1
    /\ \E a \in QuadArgs :
        /\ parts' = quadraticCurveTo(parts, a[1], a[2], a[3], a[4])
        /\ recLast' = RecCall("quadraticCurveTo", a)

RecRect ==
    /\ recCalls < MaxCalls
    /\ recCalls' = recCalls + 1
    /\ \E x, w, h \in Coords :
        /\ parts' = rect(parts, x, 0, w, h)
        /\ recLast' = RecCall("rect", <<x, 0, w, h>>)

RecClosePath ==
    /\ recCalls < MaxCalls
    /\ recCalls' = recCalls + 1
    /\ parts' = closePath(parts)
    /\ recLast' = RecCall("closePath", <<>>)

RecArc ==
    /\ recCalls < MaxCalls
    /\ recCalls' = recCalls + 1
    /\ \E cx \in Coords, r \in Radii, s \in StartAngles, dl \in SweepDeltas,
          acw \in BOOLEAN :
        /\ parts' = arc(parts, cx, 0, r, s, AngAdd(s, dl), acw)
        /\ recLast' = RecCall("arc", <<cx, 0, r, s, AngAdd(s, dl), acw>>)

\* a new SVGPathRecorder() (graphic.ts 170)
RecNew ==
    /\ parts # <<>>
    /\ parts' = <<>>
    /\ recLast' = [op |-> "new", args |-> <<>>, before |-> <<>>]
    /\ recCalls' = 0

(***************************************************************************)
(* Values shared by Layer, brush and RPainter                              *)
(*                                                                         *)
(* An optional value (null or a value) is the empty sequence or <<v>>.     *)
(* A rectangle is a zrender BoundingRect; fin = FALSE stands for one with  *)
(* a NaN field, for which isFinite() is false and every comparison fails.  *)
(***************************************************************************)
None == <<>>
Some(v) == <<v>>
IsSome(o) == Len(o) > 0
Val(o) == o[1]

\* zrender/lib/graphic/constants (imported at graphic.ts 15, Painter.ts 14)
REDRAW_BIT == 1
SHAPE_CHANGED_BIT == 4

HasBit(d, bit) == (d \div bit) % 2 = 1

Rect(x, y, w, h) == [x |-> x, y |-> y, width |-> w, height |-> h, fin |-> TRUE]
NaNRect == [x |-> 0, y |-> 0, width |-> 1, height |-> 1, fin |-> FALSE]

\* BoundingRect.isFinite(), isZero()
RectIsFinite(r) == r.fin
RectIsZero(r) == r.width = 0 \/ r.height = 0

\* a.intersect(b): touching edges count; with NaN no comparison is true
RectIntersect(a, b) ==
    IF ~a.fin \/ ~b.fin THEN TRUE
    ELSE ~(  a.x + a.width < b.x \/ b.x + b.width < a.x
          \/ a.y + a.height < b.y \/ b.y + b.height < a.y)

\* a union that leaves a as it was
RectUnionKeepsFirst(a, b) == a

\* a.union(b), as the new value of a (both finite)
RectUnion(a, b) ==
    LET x == Min(a.x, b.x)
        y == Min(a.y, b.y)
    IN  [x |-> x, y |-> y,
         width |-> Max(b.x + b.width, a.x + a.width) - x,
         height |-> Max(b.y + b.height, a.y + a.height) - y,
         fin |-> TRUE]

RectArea(r) == r.width * r.height

\* every point of inner lies in outer
RectContains(outer, inner) ==
    /\ outer.fin /\ inner.fin
    /\ outer.x <= inner.x /\ inner.x + inner.width <= outer.x + outer.width
    /\ outer.y <= inner.y /\ inner.y + inner.height <= outer.y + outer.height

(***************************************************************************)
(* Elements (zrender Displayable), as far as the renderer reads or writes  *)
(* them.  Display lists hold element ids; the store maps ids to records,   *)
(* so that two lists naming one element see the same record.               *)
(***************************************************************************)
\* A colour is "null", "none", a colour string, or "gradient" / "pattern" for an
\* object.  opacity is in tenths.  image: none | loading | ready.
DefaultStyle == [fill |-> "#000", stroke |-> "null", lineWidth |-> 1, opacity |-> 10,
                 text |-> "", strokeFirst |-> FALSE, image |-> "none"]

NewEl ==
    [id |-> 0,                 \* which object this is (=== compares ids)
     kind |-> "path",          \* path | text | image | incremental | other
     ignore |-> FALSE,
     invisible |-> FALSE,      \* shouldBePainted() is false for another reason
     zlevel |-> 0,
     incremental |-> FALSE,
     inHover |-> FALSE,        \* __inHover
     notClear |-> FALSE,
     dirty |-> REDRAW_BIT + SHAPE_CHANGED_BIT,      \* __dirty
     isRendered |-> FALSE,     \* __isRendered
     inZr |-> TRUE,            \* __zr is set
     rect |-> Rect(0, 0, 1, 1),    \* getPaintRect()
     prevRect |-> None,        \* getPrevPaintRect()
     clipPaths |-> None,       \* __clipPaths: null, or a list of clip shapes
     transform |-> None,
     style |-> DefaultStyle,
     hoverStyle |-> None,      \* __hoverStyle
     shape |-> "rect",         \* what buildPath draws: see BuildPath
     path |-> None,            \* el.path: the shape its PathProxy last recorded
     silent |-> FALSE,
     cursor |-> 0,             \* incremental container: getCursor()
     displayables |-> <<>>,    \* incremental container: persisted sub-elements
     temporal |-> <<>>]        \* incremental container: temporary sub-elements

\* el.shouldBePainted(viewWidth, viewHeight, true, true)
shouldBePainted(el) == ~el.ignore /\ ~el.invisible

(***************************************************************************)
(* Layer (graphic.ts 581-956)                                              *)
(***************************************************************************)
\* maxRepaintRectCount = 5 (graphic.ts 606)
DefaultMaxRepaintRectCount == 5

NewLayer(zlevel) ==
    [zlevel |-> zlevel,
     builtin |-> FALSE,            \* __builtin__
     virtual |-> FALSE,
     incremental |-> FALSE,
     hasResize |-> FALSE,          \* a custom layer's resize function
     hasRefresh |-> FALSE,         \* a custom layer's refresh function
     maxRepaintRectCount |-> DefaultMaxRepaintRectCount,
     dirty |-> TRUE,               \* __dirty
     firstTimePaint |-> TRUE,      \* __firstTimePaint
     used |-> FALSE,               \* __used
     drawIndex |-> 0,
     startIndex |-> 0,
     endIndex |-> 0,
     prevStartIndex |-> None,      \* null until the first afterBrush
     prevEndIndex |-> None]

\* getElementCount()
getElementCount(layer) == layer.endIndex - layer.startIndex

\* an afterBrush that records nothing
LayerAfterBrushNothing(layer) == layer

\* afterBrush()
LayerAfterBrush(layer) ==
    [layer EXCEPT !.prevStartIndex = Some(layer.startIndex),
                  !.prevEndIndex = Some(layer.endIndex)]

\* a setUnpainted that leaves the flag alone
setUnpaintedNoFlag(layer) == layer

\* setUnpainted()
setUnpainted(layer) == [layer EXCEPT !.firstTimePaint = TRUE]

\* The scan of addRectToMergePool (graphic.ts 712-735): the first pool index
\* that intersects the candidate, or Len(pool) + 1 when the loop runs to its end.
FirstIntersecting(pool, cand) ==
    IF \E i \in 1..Len(pool) : RectIntersect(pool[i], cand)
    THEN CHOOSE i \in 1..Len(pool) :
            /\ RectIntersect(pool[i], cand)
            /\ \A j \in 1..(i - 1) : ~RectIntersect(pool[j], cand)
    ELSE Len(pool) + 1

\* deltaArea of pool entry i for the candidate (graphic.ts 724-729)
DeltaArea(pool, i, cand) ==
    RectArea(RectUnion(cand, pool[i])) - RectArea(cand) - RectArea(pool[i])

\* bestRectToMergeIdx after the scan stopped before index stop: the first
\* entry of least deltaArea among those visited, the first entry if none was.
BestRectToMergeIdx(pool, stop, cand) ==
    IF stop = 1 THEN 1
    ELSE CHOOSE i \in 1..(stop - 1) :
            \A j \in 1..(stop - 1) :
                \/ DeltaArea(pool, i, cand) < DeltaArea(pool, j, cand)
                \/ (DeltaArea(pool, i, cand) = DeltaArea(pool, j, cand) /\ i <= j)

\* addRectToMergePool(rect) on the closure state [pool, full]
PoolIsFull(pool, maxRepaintRectCount) == Len(pool) >= maxRepaintRectCount

addRectToMergePool(st, cand, maxRepaintRectCount) ==
    IF ~RectIsFinite(cand) \/ RectIsZero(cand) THEN st
    ELSE IF Len(st.pool) = 0 THEN [st EXCEPT !.pool = <<cand>>]
    ELSE
        LET k == FirstIntersecting(st.pool, cand)
            hit == k <= Len(st.pool)
            p1 == IF hit THEN [st.pool EXCEPT ![k] = RectUnion(st.pool[k], cand)]
                         ELSE st.pool
            best == BestRectToMergeIdx(st.pool, k, cand)
            p2 == IF st.full THEN [p1 EXCEPT ![best] = RectUnion(p1[best], cand)] ELSE p1
            isMerged == hit \/ st.full
            p3 == IF isMerged THEN p2 ELSE Append(p2, cand)
        IN  [pool |-> p3,
             full |-> IF st.full THEN TRUE ELSE PoolIsFull(p3, maxRepaintRectCount)]

RemoveAt(seq, i) == SubSeq(seq, 1, i - 1) \o SubSeq(seq, i + 1, Len(seq))

\* an inner loop that leaves intersecting entries apart
MergeIntoINothing(pool, i, j, has) == [pool |-> pool, has |-> has]

\* the inner loop over j (graphic.ts 792-801) for a fixed i
RECURSIVE MergeIntoI(_, _, _, _)
MergeIntoI(pool, i, j, has) ==
    IF j > Len(pool) THEN [pool |-> pool, has |-> has]
    ELSE IF RectIntersect(pool[i], pool[j])
         THEN MergeIntoI(RemoveAt([pool EXCEPT ![i] = RectUnion(pool[i], pool[j])], j),
                         i, j, TRUE)
         ELSE MergeIntoI(pool, i, j + 1, has)

\* the loop over i (graphic.ts 787-803)
RECURSIVE MergeRound(_, _, _)
MergeRound(pool, i, has) ==
    IF i > Len(pool) THEN [pool |-> pool, has |-> has]
    ELSE IF RectIsZero(pool[i]) THEN MergeRound(RemoveAt(pool, i), i, has)
    ELSE Bind(MergeIntoI(pool, i, i + 1, has), LAMBDA r :
            MergeRound(r.pool, i + 1, r.has))

\* do ... while (hasIntersections) (graphic.ts 784-804): the pool and
\* hasIntersections at the end of each round
RECURSIVE MergeRounds(_)
MergeRounds(pool) ==
    Bind(MergeRound(pool, 1, FALSE), LAMBDA r :
        IF r.has THEN <<r>> \o MergeRounds(r.pool) ELSE <<r>>)

\* the pool the last round left, which is the list returned
LastPool(rounds) == rounds[Len(rounds)].pool

\* The arguments of the addRectToMergePool calls of the scan of the current
\* list (graphic.ts 753-771), in call order
RECURSIVE CurrentCandidates(_, _, _, _)
CurrentCandidates(store, displayList, i, endIndex) ==
    IF i >= endIndex THEN <<>>
    ELSE IF i + 1 > Len(displayList)
         THEN CurrentCandidates(store, displayList, i + 1, endIndex)
    ELSE
        LET el == store[displayList[i + 1]]
            shouldPaint == shouldBePainted(el)
            prevRect == IF el.isRendered /\ (HasBit(el.dirty, REDRAW_BIT) \/ ~shouldPaint)
                        THEN el.prevRect ELSE None
            curRect == IF shouldPaint /\ (HasBit(el.dirty, REDRAW_BIT) \/ ~el.isRendered)
                       THEN Some(el.rect) ELSE None
        IN  prevRect \o curRect \o CurrentCandidates(store, displayList, i + 1, endIndex)

\* ... and of the scan of the previous list (graphic.ts 773-782)
RECURSIVE PreviousCandidates(_, _, _, _)
PreviousCandidates(store, prevList, i, endIndex) ==
    IF i >= endIndex THEN <<>>
    ELSE IF i + 1 > Len(prevList)
         THEN PreviousCandidates(store, prevList, i + 1, endIndex)
    ELSE
        LET el == store[prevList[i + 1]]
            shouldPaint == shouldBePainted(el)
            prevRect == IF (~shouldPaint \/ ~el.inZr) /\ el.isRendered
                        THEN el.prevRect ELSE None
        IN  prevRect \o PreviousCandidates(store, prevList, i + 1, endIndex)

\* null counts as 0 in the loop bounds of graphic.ts 773
IndexOrZero(o) == IF IsSome(o) THEN Val(o) ELSE 0

CandidateRects(layer, store, displayList, prevList) ==
    CurrentCandidates(store, displayList, layer.startIndex, layer.endIndex)
    \o PreviousCandidates(store, prevList, IndexOrZero(layer.prevStartIndex),
                          IndexOrZero(layer.prevEndIndex))

\* the closure states after each addRectToMergePool call, in order
RECURSIVE MergePoolTrace(_, _, _)
MergePoolTrace(st, cands, maxRepaintRectCount) ==
    IF Len(cands) = 0 THEN <<>>
    ELSE Bind(addRectToMergePool(st, Head(cands), maxRepaintRectCount), LAMBDA st1 :
            <<st1>> \o MergePoolTrace(st1, Tail(cands), maxRepaintRectCount))

EmptyPool == [pool |-> <<>>, full |-> FALSE]

\* createRepaintRects(displayList, prevList, viewWidth, viewHeight):
\* the layer afterwards, the value returned (None for null), and the pool
\* after each addRectToMergePool call
createRepaintRects(layer, store, displayList, prevList) ==
    IF layer.firstTimePaint
    THEN [layer |-> [layer EXCEPT !.firstTimePaint = FALSE], rects |-> None,
          cands |-> <<>>, trace |-> <<>>, rounds |-> <<>>]
    ELSE
        LET cands == CandidateRects(layer, store, displayList, prevList)
            trace == MergePoolTrace(EmptyPool, cands, layer.maxRepaintRectCount)
            last == IF Len(trace) = 0 THEN <<>> ELSE trace[Len(trace)].pool
        IN  Bind(MergeRounds(last), LAMBDA rounds :
                [layer |-> layer, rects |-> Some(LastPool(rounds)),
                 cands |-> cands, trace |-> trace, rounds |-> rounds])

(***************************************************************************)
(* brush and its helpers (graphic.ts 109-536)                              *)
(*                                                                         *)
(* ctx is the 2D context of one surface: the depth of its save stack, the  *)
(* state brush sets on it, and the calls that draw or bind: rough's        *)
(* rc.path, fillText, strokeText, drawImage, and the style binders with    *)
(* their forceSetAll flag.  Of the style properties the binders diff, the  *)
(* model carries opacity, fill, stroke and lineWidth.                      *)
(***************************************************************************)
DRAW_TYPE_PATH == 1
DRAW_TYPE_IMAGE == 2
DRAW_TYPE_TEXT == 3
DRAW_TYPE_INCREMENTAL == 4

NewCtx ==
    [depth |-> 0,              \* save() calls not yet restored
     underflow |-> FALSE,      \* restore() was called on an empty stack
     transform |-> None,
     globalAlpha |-> 10,
     fillStyle |-> "#000",
     strokeStyle |-> "#000",
     lineWidth |-> 1,
     calls |-> <<>>]

CtxSave(ctx) == [ctx EXCEPT !.depth = @ + 1]
CtxRestore(ctx) ==
    IF ctx.depth = 0 THEN [ctx EXCEPT !.underflow = TRUE] ELSE [ctx EXCEPT !.depth = @ - 1]
CtxCall(ctx, call) == [ctx EXCEPT !.calls = Append(@, call)]

\* a BrushScope as the callers create it; lastDrawType 0 and batchFill
\* "undefined" stand for the fields not yet set
NewScope(inHover) ==
    [inHover |-> inHover,
     prevElClipPaths |-> None,
     prevEl |-> None,
     allClipped |-> FALSE,
     batchFill |-> "undefined",
     batchStroke |-> "undefined",
     lastDrawType |-> 0]

styleHasStroke(style) ==
    ~(style.stroke = "null" \/ style.stroke = "none" \/ ~(style.lineWidth > 0))

\* typeof v === 'string' && v !== 'none'
isValidStrokeFillStyle(v) == v \notin {"null", "gradient", "pattern"} /\ v # "none"

styleHasFill(style) == style.fill # "null" /\ style.fill # "none"

flushPathDrawn(scope) == [scope EXCEPT !.batchFill = "", !.batchStroke = ""]

getStyle(el, inHover) ==
    IF inHover /\ IsSome(el.hoverStyle) THEN Val(el.hoverStyle) ELSE el.style

\* The recorder calls that el.buildPath makes for a shape, replayed by
\* path.rebuildPath(recorder, 1) (graphic.ts 164, 171)
BuildPath(shape) ==
    CASE shape = "rect" -> rect(<<>>, 0, 0, 10, 10)
      [] shape = "line" -> lineTo(moveTo(<<>>, 0, 0), 10, 10)
      [] shape = "circle" -> arc(<<>>, 10, 10, 5, Ang(0, 0), Ang(4, 0), FALSE)
      [] shape = "point" -> arc(<<>>, 10, 10, 5, Ang(0, 0), Ang(0, 0), FALSE)
      [] OTHER -> <<>>

\* the colours handed to rc.path (graphic.ts 176-186)
ResolveFill(style) == IF isValidStrokeFillStyle(style.fill) THEN style.fill ELSE "none"

ResolveExplicitStroke(style) ==
    IF styleHasStroke(style) /\ isValidStrokeFillStyle(style.stroke)
    THEN style.stroke ELSE "none"

\* the stroke without the synthesized outline
ResolveStrokeNoOutline(style) == ResolveExplicitStroke(style)

ResolveStroke(style) ==
    LET explicitStroke == ResolveExplicitStroke(style)
        hasFill == ResolveFill(style) # "none"
    IN  IF explicitStroke # "none" THEN explicitStroke
        ELSE IF hasFill THEN "#333" ELSE "none"

\* a hand-off that does not test the descriptor
RcPathAlways(ctx, el, style, svgPath) ==
    [ctx |-> CtxCall(ctx, [op |-> "rc.path", el |-> el.id, path |-> svgPath,
                           roughness |-> "0.4", bowing |-> "0.3",
                           stroke |-> ResolveStroke(style),
                           strokeWidth |-> IF style.lineWidth = 0 THEN 1 ELSE style.lineWidth,
                           fill |-> "undefined"]),
     el |-> el]

\* rc.path(svgPath, options) unless the descriptor is empty (graphic.ts 173-200)
RcPath(ctx, el, style, svgPath) ==
    LET fillColor == ResolveFill(style)
        hasFill == fillColor # "none"
        strokeColor == ResolveStroke(style)
    IN  IF svgPath = "" THEN [ctx |-> ctx, el |-> el]
        ELSE [ctx |-> CtxCall(ctx, [op |-> "rc.path", el |-> el.id, path |-> svgPath,
                                    roughness |-> IF hasFill THEN "1.5" ELSE "0.4",
                                    bowing |-> IF hasFill THEN "1" ELSE "0.3",
                                    stroke |-> strokeColor,
                                    strokeWidth |-> IF style.lineWidth = 0 THEN 1
                                                    ELSE style.lineWidth,
                                    fill |-> IF hasFill THEN fillColor ELSE "undefined"]),
              el |-> el]

\* brushPath(ctx, el, style): the context and the element afterwards
brushPath(ctx, el, style) ==
    LET firstDraw == ~IsSome(el.path)
        \* strokePercent is not modelled below 1, so strokePart is false
        el1 == IF ~el.silent /\ firstDraw THEN [el EXCEPT !.path = Some("")] ELSE el
        rebuild == firstDraw \/ HasBit(el.dirty, SHAPE_CHANGED_BIT)
        \* el.path || pathProxyForDraw, reset and rebuilt: the shape now recorded
        recorded == IF rebuild THEN el.shape ELSE Val(el1.path)
        el2 == IF rebuild
               THEN [el1 EXCEPT !.path = IF IsSome(el1.path) THEN Some(el.shape) ELSE None,
                                \* pathUpdated()
                                !.dirty = IF HasBit(el.dirty, SHAPE_CHANGED_BIT)
                                          THEN el.dirty - SHAPE_CHANGED_BIT ELSE el.dirty]
               ELSE el1
    IN  RcPath(ctx, el2, style, getPath(BuildPath(recorded)))

\* brushImage(ctx, el, style)
brushImage(ctx, el, style) ==
    IF style.image # "ready" THEN ctx
    ELSE CtxCall(ctx, [op |-> "drawImage", el |-> el.id])

\* brushText(ctx, el, style)
brushText(ctx, el, style) ==
    IF style.text = "" THEN ctx
    ELSE
        LET strokeCall == IF styleHasStroke(style)
                          THEN << [op |-> "strokeText", el |-> el.id] >> ELSE <<>>
            fillCall == IF styleHasFill(style)
                        THEN << [op |-> "fillText", el |-> el.id] >> ELSE <<>>
        IN  [ctx EXCEPT !.calls = @ \o (IF style.strokeFirst THEN strokeCall \o fillCall
                                                             ELSE fillCall \o strokeCall)]

\* bindCommonProps: opacity (blend and the shadow properties are diffed alike)
bindCommonProps(ctx, style, prevStyle, sameObject, forceSetAll) ==
    IF ~forceSetAll /\ sameObject THEN ctx
    ELSE IF forceSetAll \/ ~IsSome(prevStyle) \/ style.opacity # Val(prevStyle).opacity
         THEN [ctx EXCEPT !.globalAlpha = Max(Min(style.opacity, 10), 0)]
         ELSE ctx

\* the style properties bindPathAndTextCommonStyle sets after bindCommonProps
BindStyleProps(ctx, style, prevStyle, forceSetAll, hasStroke) ==
    LET changed(f) == forceSetAll \/ ~IsSome(prevStyle) \/ style[f] # Val(prevStyle)[f]
    IN  [ctx EXCEPT
            !.fillStyle = IF changed("fill") /\ isValidStrokeFillStyle(style.fill)
                          THEN style.fill ELSE @,
            !.strokeStyle = IF changed("stroke") /\ isValidStrokeFillStyle(style.stroke)
                            THEN style.stroke ELSE @,
            !.globalAlpha = IF changed("opacity") THEN style.opacity ELSE @,
            !.lineWidth = IF hasStroke /\ @ # style.lineWidth THEN style.lineWidth ELSE @]

\* bindPathAndTextCommonStyle(ctx, el, prevEl, forceSetAll, scope)
bindPathAndTextCommonStyle(ctx, el, prevEl, forceSetAll, scope) ==
    LET style == getStyle(el, scope.inHover)
        \* forceSetAll ? null : (prevEl && getStyle(prevEl) || {})
        prevStyle == IF forceSetAll \/ ~IsSome(prevEl) THEN None
                     ELSE Some(getStyle(Val(prevEl), scope.inHover))
        sameObject == ~forceSetAll /\ IsSome(prevEl) /\ Val(prevEl).id = el.id
        entry == [op |-> "bindPathAndTextCommonStyle", el |-> el.id,
                  forceSetAll |-> forceSetAll,
                  prevEl |-> IF IsSome(prevEl) THEN Some(Val(prevEl).id) ELSE None]
    IN  IF sameObject THEN CtxCall(ctx, entry)
        \* el.hasStroke(): the test of styleHasStroke on el.style
        ELSE BindStyleProps(bindCommonProps(CtxCall(ctx, entry), style, prevStyle, sameObject,
                                            forceSetAll),
                            style, prevStyle, forceSetAll, styleHasStroke(el.style))

\* bindImageStyle(ctx, el, prevEl, forceSetAll, scope)
bindImageStyle(ctx, el, prevEl, forceSetAll, scope) ==
    LET prevStyle == IF IsSome(prevEl) THEN Some(getStyle(Val(prevEl), scope.inHover)) ELSE None
        sameObject == IsSome(prevEl) /\ Val(prevEl).id = el.id
        c0 == CtxCall(ctx, [op |-> "bindImageStyle", el |-> el.id,
                            forceSetAll |-> forceSetAll,
                            prevEl |-> IF IsSome(prevEl) THEN Some(Val(prevEl).id) ELSE None])
    IN  bindCommonProps(c0, getStyle(el, scope.inHover), prevStyle, sameObject, forceSetAll)

\* setContextTransform(ctx, el): the matrix of el, or the identity (None)
setContextTransform(ctx, el) == [ctx EXCEPT !.transform = el.transform]

\* a clip step that finds every clip region empty
updateClipStatusAllClipped(scope) == [scope EXCEPT !.allClipped = TRUE]

\* updateClipStatus(clipPaths, ctx, scope)
updateClipStatus(scope) == [scope EXCEPT !.allClipped = FALSE]

isTransformChanged(m0, m1) == m0 # m1

\* the draw type brush records for a kind, 0 if the kind has none
DrawTypeOf(kind) ==
    CASE kind = "path" -> DRAW_TYPE_PATH
      [] kind = "text" -> DRAW_TYPE_TEXT
      [] kind = "image" -> DRAW_TYPE_IMAGE
      [] kind = "incremental" -> DRAW_TYPE_INCREMENTAL
      [] OTHER -> 0

\* isClipPathChanged(clipPaths, prevClipPaths) of ./helper
isClipPathChanged(clipPaths, prevClipPaths) ==
    IF ~IsSome(clipPaths) /\ ~IsSome(prevClipPaths) THEN FALSE
    ELSE IF ~IsSome(clipPaths) \/ ~IsSome(prevClipPaths) THEN TRUE
    ELSE Val(clipPaths) # Val(prevClipPaths)

\* a non-null list with at least one clip path
HasClipPaths(clipPaths) == IsSome(clipPaths) /\ Len(Val(clipPaths)) > 0

\* IncrementalDisplayable.innerAfterBrush(): the cursor moves past the
\* persisted sub-elements; other kinds have an empty hook
innerAfterBrush(el) ==
    IF el.kind = "incremental" THEN [el EXCEPT !.cursor = Len(el.displayables)] ELSE el

\* the test of graphic.ts 425
\* a brush that skips no element
BrushSkipsNothing(el) == FALSE

BrushSkips(el) == el.ignore

RECURSIVE brush(_, _, _), brushIncremental(_, _, _), brushEach(_, _, _, _)
RECURSIVE BrushEachNext(_, _, _)

\* graphic.ts 436-443: the previous element's clip scope is left
LeaveClip(cs) ==
    [ctx |-> CtxRestore(cs.ctx),
     scope |-> [flushPathDrawn(cs.scope) EXCEPT !.prevElClipPaths = None,
                                                !.allClipped = FALSE,
                                                !.prevEl = None]]

\* graphic.ts 444-449: the element's clip scope is entered
EnterClip(cs) ==
    [ctx |-> CtxSave(cs.ctx), scope |-> updateClipStatus(flushPathDrawn(cs.scope))]

\* graphic.ts 450
SetPrevClipPaths(cs, clipChanged, clipPaths) ==
    IF clipChanged THEN [cs EXCEPT !.scope.prevElClipPaths = clipPaths] ELSE cs

\* graphic.ts 475-493: the dispatch on the kind of element
BrushDraw(ctx, el, prevEl, forceSetStyle, scope, style) ==
    CASE el.kind = "path" ->
           brushPath(bindPathAndTextCommonStyle(ctx, el, prevEl, forceSetStyle, scope),
                     el, style)
      [] el.kind = "text" ->
           [ctx |-> brushText(bindPathAndTextCommonStyle(ctx, el, prevEl, forceSetStyle,
                                                         scope),
                              el, style),
            el |-> el]
      [] el.kind = "image" ->
           [ctx |-> brushImage(bindImageStyle(ctx, el, prevEl, forceSetStyle, scope),
                               el, style),
            el |-> el]
      [] el.kind = "incremental" -> brushIncremental(ctx, el, scope)
      [] OTHER -> [ctx |-> ctx, el |-> el]

\* an end of brush that leaves the dirty bits as they were
BrushDoneStillDirty(drawn, scope) ==
    [ctx |-> drawn.ctx,
     el |-> [innerAfterBrush(drawn.el) EXCEPT !.isRendered = TRUE],
     scope |-> [scope EXCEPT !.prevEl = Some([innerAfterBrush(drawn.el) EXCEPT !.isRendered = TRUE])]]

\* graphic.ts 495-499
BrushDone(drawn, scope) ==
    LET elDone == [innerAfterBrush(drawn.el) EXCEPT !.dirty = 0, !.isRendered = TRUE]
    IN  [ctx |-> drawn.ctx, el |-> elDone, scope |-> [scope EXCEPT !.prevEl = Some(elDone)]]

\* graphic.ts 452-500, cs being the context and the scope after the clip steps
BrushClipped(cs, el, leave, enter, inHover) ==
    IF cs.scope.allClipped
    THEN [ctx |-> cs.ctx, el |-> [el EXCEPT !.isRendered = FALSE], scope |-> cs.scope]
    ELSE
        LET prevEl == cs.scope.prevEl
            forceSetTransform == leave \/ enter \/ ~IsSome(prevEl)
            drawType == DrawTypeOf(el.kind)
            forceSetStyle == leave \/ ~IsSome(prevEl)
                             \/ (drawType # 0 /\ cs.scope.lastDrawType # drawType)
        IN  BrushDone(
                BrushDraw(\* graphic.ts 465-471
                          IF forceSetTransform
                             \/ isTransformChanged(el.transform, Val(prevEl).transform)
                          THEN setContextTransform(cs.ctx, el) ELSE cs.ctx,
                          el, prevEl, forceSetStyle,
                          [flushPathDrawn(cs.scope) EXCEPT
                              !.lastDrawType = IF drawType # 0 THEN drawType ELSE @],
                          getStyle(el, inHover)),
                [flushPathDrawn(cs.scope) EXCEPT
                    !.lastDrawType = IF drawType # 0 THEN drawType ELSE @])

\* brush(ctx, el, scope, isLast): the context, the element and the scope afterwards
brush(ctx, el, scope) ==
    IF BrushSkips(el) THEN [ctx |-> ctx, el |-> el, scope |-> scope]
    ELSE
        LET clipPaths == el.clipPaths
            prevElClipPaths == scope.prevElClipPaths
            clipChanged == ~IsSome(prevElClipPaths)
                           \/ isClipPathChanged(clipPaths, prevElClipPaths)
            leave == clipChanged /\ HasClipPaths(prevElClipPaths)
            enter == clipChanged /\ HasClipPaths(clipPaths)
            cs0 == [ctx |-> ctx, scope |-> scope]
        IN  BrushClipped(
                SetPrevClipPaths(
                    IF enter THEN EnterClip(IF leave THEN LeaveClip(cs0) ELSE cs0)
                    ELSE IF leave THEN LeaveClip(cs0) ELSE cs0,
                    clipChanged, clipPaths),
                el, leave, enter, scope.inHover)

\* after one brush of the loop of brushIncremental: innerScope.prevEl = d
BrushEachNext(r, ds, i) ==
    brushEach(r.ctx, [ds EXCEPT ![i] = innerAfterBrush(r.el)], i + 1,
              [r.scope EXCEPT !.prevEl = Some(innerAfterBrush(r.el))])

\* the loop of brushIncremental over ds[i..]
brushEach(ctx, ds, i, innerScope) ==
    IF i > Len(ds) THEN [ctx |-> ctx, ds |-> ds, scope |-> innerScope]
    ELSE BrushEachNext(brush(ctx, ds[i], innerScope), ds, i)

\* the temporal displayables, the restore and the end of brushIncremental
IncrementalDone(persisted, el) ==
    [ctx |-> CtxRestore(brushEach(persisted.ctx, el.temporal, 1, persisted.scope).ctx),
     el |-> [el EXCEPT !.displayables = persisted.ds,
                       \* clearTemporalDisplayables()
                       !.temporal = <<>>,
                       !.notClear = TRUE]]

\* a brushIncremental that starts at the first persisted sub-element
brushIncrementalFromZero(ctx, el, scope) ==
    IncrementalDone(brushEach(CtxSave(ctx), el.displayables, 1, NewScope(scope.inHover)), el)

\* brushIncremental(ctx, el, scope): the context and the container afterwards
brushIncremental(ctx, el, scope) ==
    IncrementalDone(brushEach(CtxSave(ctx), el.displayables, el.cursor + 1,
                              NewScope(scope.inHover)),
                    el)

(***************************************************************************)
(* RPainter (Painter.ts)                                                   *)
(*                                                                         *)
(* z-levels are counted in thousandths, so that the keys z + 0.001 and     *)
(* z + 0.01 of the layers beside an incremental layer are integers.        *)
(* A painter p is a record: its layers by z-level, _zlevelList, the 2D     *)
(* context of each layer, the elements by id, and a log of what the        *)
(* running call did to the surfaces.  Layer indices count from 0 as in     *)
(* the source; position i of a display list is list[i + 1] here.           *)
(***************************************************************************)
ZUnit == 1000

HOVER_LAYER_ZLEVEL == 100000 * ZUnit
CANVAS_ZLEVEL == 314159 * ZUnit
EL_AFTER_INCREMENTAL_INC == 10
INCREMENTAL_INC == 1

\* a validity test that accepts every layer
isLayerValidAlways(layer) == TRUE

\* isLayerValid(layer), for a layer that exists
isLayerValid(layer) == layer.builtin \/ (layer.hasResize /\ layer.hasRefresh)

\* the painter after its constructor (Painter.ts 101-167)
NewPainter(singleCanvas, useDirtyRect) ==
    [singleCanvas |-> singleCanvas,
     useDirtyRect |-> useDirtyRect,
     layers |-> IF singleCanvas
                THEN (CANVAS_ZLEVEL :> [NewLayer(CANVAS_ZLEVEL) EXCEPT !.builtin = TRUE])
                ELSE <<>>,
     zlevelList |-> IF singleCanvas THEN <<CANVAS_ZLEVEL>> ELSE <<>>,
     ctx |-> IF singleCanvas THEN (CANVAS_ZLEVEL :> NewCtx) ELSE <<>>,
     layerConfig |-> <<>>,
     needsManuallyCompositing |-> FALSE,
     hoverlayer |-> None,
     backgroundColor |-> "null",
     store |-> <<>>,
     assigned |-> <<>>,     \* the key of the layer _updateLayerStatus last got for each index
     cursors |-> <<>>,      \* per layer _doPaintList last painted: its drawIndex then, and paintAll
     log |-> <<>>]

HasLayer(p, zlevel) == zlevel \in DOMAIN p.layers

InsertIndexFront(zlevelList, zlevel) == 0

\* the index after which insertLayer splices the new z-level in (0: in front)
InsertIndex(zlevelList, zlevel) ==
    LET len == Len(zlevelList)
    IN  IF len > 0 /\ zlevel > zlevelList[1]
        THEN IF \E i \in 1..(len - 1) : zlevelList[i] < zlevel /\ zlevelList[i + 1] > zlevel
             THEN CHOOSE i \in 1..(len - 1) :
                     /\ zlevelList[i] < zlevel /\ zlevelList[i + 1] > zlevel
                     /\ \A j \in 1..(i - 1) :
                           ~(zlevelList[j] < zlevel /\ zlevelList[j + 1] > zlevel)
             ELSE len
        ELSE 0

\* insertLayer(zlevel, layer); the layer's context exists from its construction
insertLayer(p, zlevel, layer) ==
    IF HasLayer(p, zlevel) THEN p
    ELSE IF ~isLayerValid(layer) THEN p
    ELSE LET i == InsertIndex(p.zlevelList, zlevel)
         IN  [p EXCEPT !.zlevelList = SubSeq(@, 1, i) \o <<zlevel>> \o SubSeq(@, i + 1, Len(@)),
                       !.layers = (zlevel :> layer) @@ @,
                       !.ctx = (zlevel :> NewCtx) @@ @]

\* delLayer(zlevel): a virtual layer's canvas has no parent node, so the
\* removeChild call throws before anything is deleted
delLayer(p, zlevel) ==
    IF ~HasLayer(p, zlevel) THEN p
    ELSE IF p.layers[zlevel].virtual THEN p
    ELSE [p EXCEPT !.layers = [z \in (DOMAIN @) \ {zlevel} |-> @[z]],
                   !.ctx = [z \in (DOMAIN @) \ {zlevel} |-> @[z]],
                   !.zlevelList = SelectSeq(@, LAMBDA z : z # zlevel)]

\* util.merge(layer, config, true), for the configuration the model carries
MergeConfig(layer, config) == [layer EXCEPT !.maxRepaintRectCount = config.maxRepaintRectCount]

\* getLayer(zlevel, virtual): the painter afterwards and the key of the layer returned
getLayer(p, zlevel, virtual) ==
    LET z == IF p.singleCanvas /\ ~p.needsManuallyCompositing THEN CANVAS_ZLEVEL ELSE zlevel
        fresh == [NewLayer(z) EXCEPT !.builtin = TRUE]
        configured ==
            IF z \in DOMAIN p.layerConfig THEN MergeConfig(fresh, p.layerConfig[z])
            ELSE IF (z - EL_AFTER_INCREMENTAL_INC) \in DOMAIN p.layerConfig
                 THEN MergeConfig(fresh, p.layerConfig[z - EL_AFTER_INCREMENTAL_INC])
                 ELSE fresh
        layer == IF virtual THEN [configured EXCEPT !.virtual = TRUE] ELSE configured
    IN  IF HasLayer(p, z) THEN [p |-> p, z |-> z]
        ELSE [p |-> insertLayer(p, z, layer), z |-> z]

\* eachBuiltinLayer order
BuiltinLevels(p) == SelectSeq(p.zlevelList, LAMBDA z : p.layers[z].builtin)

\* updatePrevLayer(idx) of _updateLayerStatus
updatePrevLayer(p, prevLayer, idx) ==
    IF IsSome(prevLayer)
    THEN LET z == Val(prevLayer)
         IN  [p EXCEPT !.layers[z].dirty = IF p.layers[z].endIndex # idx THEN TRUE ELSE @,
                       !.layers[z].endIndex = idx]
    ELSE p

\* Painter.ts 611-618
NeedsCompositing(store, list) ==
    \E i \in 2..Len(list) :
        store[list[i]].zlevel # store[list[i - 1]].zlevel \/ store[list[i]].incremental

\* Painter.ts 650-672: the element at index i in the layer getLayer returned
EnterLayer(p, z, i, el, prevLayer) ==
    LET layer0 == p.layers[z]
        incremental == layer0.incremental \/ el.incremental
        entered == prevLayer # Some(z)
        layer1 == IF entered
                  THEN [layer0 EXCEPT !.incremental = incremental,
                                      !.used = TRUE,
                                      !.dirty = IF layer0.startIndex # i THEN TRUE ELSE @,
                                      !.startIndex = i,
                                      !.drawIndex = IF ~incremental THEN i ELSE 0 - 1]
                  ELSE [layer0 EXCEPT !.incremental = incremental]
        layer2 == IF HasBit(el.dirty, REDRAW_BIT) /\ ~el.inHover
                  THEN [layer1 EXCEPT !.dirty = TRUE,
                                      !.drawIndex = IF layer1.incremental /\ layer1.drawIndex < 0
                                                    THEN i ELSE @]
                  ELSE layer1
    IN  IF entered
        THEN updatePrevLayer([p EXCEPT !.layers[z] = layer2, !.assigned = Append(@, z)],
                             prevLayer, i)
        ELSE [p EXCEPT !.layers[z] = layer2, !.assigned = Append(@, z)]

\* a choice of layer that ignores the incremental elements
LayerKeyPlain(el, incrementalLayerCount) == el.zlevel

\* the z-level handed to getLayer for an element (Painter.ts 636-648)
LayerKey(el, incrementalLayerCount) ==
    IF el.incremental THEN el.zlevel + INCREMENTAL_INC
    ELSE el.zlevel + (IF incrementalLayerCount > 0 THEN EL_AFTER_INCREMENTAL_INC ELSE 0)

\* the loop of Painter.ts 626-673 from index i on, and the call after it
RECURSIVE UpdateLayerLoop(_, _, _, _, _, _)
UpdateLayerLoop(p, list, i, prevLayer, incrementalLayerCount, prevZlevel) ==
    IF i >= Len(list) THEN updatePrevLayer(p, prevLayer, i)
    ELSE
        LET el == p.store[list[i + 1]]
            zlevel == el.zlevel
            count0 == IF prevZlevel # Some(zlevel) THEN 0 ELSE incrementalLayerCount
            count1 == IF el.incremental THEN 1 ELSE count0
            key == LayerKey(el, count0)
        IN  Bind(getLayer(p, key, p.needsManuallyCompositing), LAMBDA got :
            Bind(EnterLayer(got.p, got.z, i, el, prevLayer), LAMBDA q :
            UpdateLayerLoop(q, list, i + 1, Some(got.z), count1, Some(zlevel))))

\* the opening eachBuiltinLayer of _updateLayerStatus (Painter.ts 598-600)
ResetLayers(p) ==
    [p EXCEPT !.layers = [z \in DOMAIN p.layers |->
                             IF p.layers[z].builtin
                             THEN [p.layers[z] EXCEPT !.dirty = FALSE, !.used = FALSE]
                             ELSE p.layers[z]],
              !.assigned = <<>>, !.cursors = <<>>]

\* a closing loop that leaves a cursor of -1 where it finds one
SettleLayerKeepsCursor(layer) ==
    IF ~layer.used /\ getElementCount(layer) > 0
    THEN [layer EXCEPT !.dirty = TRUE, !.startIndex = 0, !.endIndex = 0, !.drawIndex = 0]
    ELSE layer

\* the closing eachBuiltinLayer of _updateLayerStatus (Painter.ts 677-685)
SettleLayer(layer) ==
    LET l1 == IF ~layer.used /\ getElementCount(layer) > 0
              THEN [layer EXCEPT !.dirty = TRUE, !.startIndex = 0, !.endIndex = 0,
                                 !.drawIndex = 0]
              ELSE layer
    IN  IF l1.dirty /\ l1.drawIndex < 0 THEN [l1 EXCEPT !.drawIndex = l1.startIndex] ELSE l1

SettleLayers(p) ==
    [p EXCEPT !.layers = [z \in DOMAIN p.layers |->
                             IF p.layers[z].builtin THEN SettleLayer(p.layers[z])
                             ELSE p.layers[z]]]

\* Painter.ts 611-618
EnableCompositing(p, list) ==
    IF p.singleCanvas /\ NeedsCompositing(p.store, list)
    THEN [p EXCEPT !.needsManuallyCompositing = TRUE] ELSE p

\* _updateLayerStatus(list)
updateLayerStatus(p, list) ==
    SettleLayers(UpdateLayerLoop(EnableCompositing(ResetLayers(p), list), list, 0, None, 0, None))

Log(p, entry) == [p EXCEPT !.log = Append(@, entry)]

\* layer.clear(clearAll, clearColor, repaintRects) as the painter calls it:
\* what was asked to be cleared (rects None: the whole surface)
LayerClear(p, z, clearColor, rects) ==
    Log(p, [op |-> "clear", z |-> z, i |-> 0 - 1, el |-> 0, color |-> clearColor,
            rects |-> rects])

\* el.setPrevPaintRect(paintRect) after the brush (Painter.ts 462)
SetPrevPaintRect(r, paintRect) == [r EXCEPT !.el.prevRect = Some(paintRect)]

\* Painter.ts 457-467 on the layer's context: the context, the element and
\* the scope afterwards, and whether brush was called
PaintEl(ctx, el, useDirtyRect, repaintRect, scope) ==
    IF useDirtyRect /\ IsSome(repaintRect) /\ ~RectIntersect(el.rect, Val(repaintRect))
    THEN [ctx |-> ctx, el |-> el, scope |-> scope, brushed |-> FALSE]
    ELSE Bind(brush(ctx, el, scope), LAMBDA r :
            [ctx |-> r.ctx,
             el |-> IF useDirtyRect THEN SetPrevPaintRect(r, el.rect).el ELSE r.el,
             scope |-> r.scope,
             brushed |-> TRUE])

\* _doPaintEl(el, currentLayer, useDirtyRect, repaintRect, scope, isLast),
\* with the record of the brush
doPaintEl(p, z, i, id, repaintRect, scope) ==
    Bind(PaintEl(p.ctx[z], p.store[id], p.useDirtyRect, repaintRect, scope), LAMBDA r :
        IF ~r.brushed THEN [p |-> p, scope |-> scope]
        ELSE [p |-> Log([p EXCEPT !.ctx[z] = r.ctx, !.store[id] = r.el],
                        [op |-> "brush", z |-> z, i |-> i, el |-> id, color |-> "null",
                         rects |-> repaintRect]),
              scope |-> r.scope])

\* useTimer and Date.now() - startTime > 15 (Painter.ts 385-390), rounds
\* being the rounds of the layer's loop so far, this one included
TimerExpired(useTimer, budget, rounds) == useTimer /\ budget > 0 /\ rounds >= budget

\* if (el.__inHover) needsRefreshHover = true (Painter.ts 379-381), with
\* the record of it
MeetHover(p, z, i, id, repaintRect) ==
    IF p.store[id].inHover
    THEN Log(p, [op |-> "needsRefreshHover", z |-> z, i |-> i, el |-> id, color |-> "null",
                 rects |-> repaintRect])
    ELSE p

\* The for loop of the repaint closure (Painter.ts 376-392) from index i on.
\* budget is the number of loop rounds of this layer after which Date.now()
\* is more than 15 ms past startTime (0: never); rounds counts them.
RECURSIVE RepaintLoop(_, _, _, _, _, _, _, _, _, _)
RepaintLoop(p, z, list, i, repaintRect, scope, useTimer, budget, rounds, hover) ==
    IF i >= p.layers[z].endIndex
    THEN [p |-> p, i |-> i, scope |-> scope, rounds |-> rounds, hover |-> hover]
    ELSE
        LET id == list[i + 1]
            hover1 == hover \/ p.store[id].inHover
            rounds1 == rounds + 1
        IN  Bind(doPaintEl(MeetHover(p, z, i, id, repaintRect), z, i, id, repaintRect, scope),
                 LAMBDA r :
                IF TimerExpired(useTimer, budget, rounds1)
                THEN [p |-> Log(r.p, [op |-> "break", z |-> z, i |-> i, el |-> id,
                                      color |-> "null", rects |-> repaintRect]),
                      i |-> i, scope |-> r.scope, rounds |-> rounds1, hover |-> hover1]
                ELSE RepaintLoop(r.p, z, list, i + 1, repaintRect, r.scope, useTimer, budget,
                                 rounds1, hover1))

\* repaint(repaintRect): the loop, then the restore of a clip scope left open
repaint(p, z, list, start, repaintRect, useTimer, budget, rounds, hover) ==
    Bind(RepaintLoop(p, z, list, start, repaintRect, NewScope(FALSE), useTimer, budget,
                     rounds, hover),
         LAMBDA r : IF IsSome(r.scope.prevElClipPaths)
                    THEN [r EXCEPT !.p.ctx[z] = CtxRestore(@)]
                    ELSE r)

\* a repaint rectangle entered without clipping the context to it
ClipToNothing(p, z, repaintRect) == p

\* ctx.save(); ctx.beginPath(); ctx.rect(...); ctx.clip() (Painter.ts 404-412)
ClipTo(p, z, repaintRect) ==
    Log([p EXCEPT !.ctx[z] = CtxSave(@)],
        [op |-> "clip", z |-> z, i |-> 0 - 1, el |-> 0, color |-> "null",
         rects |-> Some(repaintRect)])

\* The painting of one layer (Painter.ts 395-421) from rectangle k on; with
\* repaintRects null (None), the single repaint() of the else branch
RECURSIVE RepaintRectsLoop(_, _, _, _, _, _, _, _, _, _, _)
RepaintRectsLoop(p, z, list, start, repaintRects, k, useTimer, budget, rounds, hover, i) ==
    LET rects == IF IsSome(repaintRects) THEN Val(repaintRects) ELSE <<>>
        last == IF IsSome(repaintRects) THEN Len(rects) ELSE 1
    IN  IF k > last THEN [p |-> p, i |-> i, hover |-> hover]
        ELSE Bind(repaint(IF IsSome(repaintRects) THEN ClipTo(p, z, rects[k])
                                                  ELSE [p EXCEPT !.ctx[z] = CtxSave(@)],
                          z, list, start,
                          IF IsSome(repaintRects) THEN Some(rects[k]) ELSE None,
                          useTimer, budget, rounds, hover),
                  LAMBDA r :
                      RepaintRectsLoop([r.p EXCEPT !.ctx[z] = CtxRestore(@)], z, list, start,
                                       repaintRects, k + 1, useTimer, budget, r.rounds,
                                       r.hover, r.i))

\* the record of layer.__drawIndex as line 344 finds it
NoteCursor(p, z, paintAll) ==
    [p EXCEPT !.cursors = Append(@, [z |-> z, drawIndex |-> p.layers[z].drawIndex,
                                     paintAll |-> paintAll])]

\* a start that takes a cursor of -1 for nothing left to paint
PaintFromSkipping(layer, paintAll) ==
    IF layer.drawIndex = 0 - 1 THEN layer.endIndex
    ELSE IF paintAll THEN layer.startIndex ELSE layer.drawIndex

\* let start = paintAll ? layer.__startIndex : layer.__drawIndex (Painter.ts 344)
PaintFrom(layer, paintAll) ==
    IF paintAll THEN layer.startIndex ELSE layer.drawIndex

\* if (start === -1) start = layer.__startIndex (Painter.ts 361-364)
PaintStart(layer, start0) ==
    IF start0 = 0 - 1 THEN layer.startIndex ELSE start0

\* Painter.ts 342-431 for one layer, repaintRects being what line 339 gave
PaintLayer(p0, z, list, paintAll, budget, repaintRects) ==
    LET p == NoteCursor(p0, z, paintAll)
        layer == p.layers[z]
        start0 == PaintFrom(layer, paintAll)
        useTimer == ~paintAll /\ layer.incremental
        clearColor == IF layer.zlevel = p.zlevelList[1] THEN p.backgroundColor ELSE "null"
        firstEl == p.store[list[start0 + 1]]
        clears == IF layer.startIndex = layer.endIndex THEN TRUE
                  ELSE /\ start0 = layer.startIndex
                       /\ (~firstEl.incremental \/ ~firstEl.notClear \/ paintAll)
        start == PaintStart(layer, start0)
    IN  Bind(IF IsSome(repaintRects) /\ Len(Val(repaintRects)) = 0
             THEN [p |-> IF clears THEN LayerClear(p, z, clearColor, repaintRects) ELSE p,
                   i |-> layer.endIndex, hover |-> FALSE]
             ELSE RepaintRectsLoop(IF clears THEN LayerClear(p, z, clearColor, repaintRects)
                                             ELSE p,
                                   z, list, start, repaintRects, 1, useTimer, budget, 0,
                                   FALSE, start),
             LAMBDA painted :
                 [p |-> [painted.p EXCEPT !.layers[z].drawIndex = painted.i],
                  hover |-> painted.hover,
                  finished |-> ~(painted.i < layer.endIndex)])

\* one round of the loop over layerList (Painter.ts 336-431)
doPaintLayer(p, z, list, prevList, paintAll, budget) ==
    IF p.useDirtyRect
    THEN Bind(createRepaintRects(p.layers[z], p.store, list, prevList), LAMBDA created :
            PaintLayer(Log([p EXCEPT !.layers[z] = created.layer],
                           [op |-> "createRepaintRects", z |-> z, i |-> 0 - 1, el |-> 0,
                            color |-> "null", rects |-> created.rects]),
                       z, list, paintAll, budget, created.rects))
    ELSE PaintLayer(p, z, list, paintAll, budget, None)

\* the layers _doPaintList paints (Painter.ts 323-332)
LayerList(p, paintAll) ==
    SelectSeq(p.zlevelList,
              LAMBDA z : /\ p.layers[z].builtin
                         /\ p.hoverlayer # Some(z)
                         /\ (p.layers[z].dirty \/ paintAll))

RECURSIVE DoPaintLayers(_, _, _, _, _, _, _, _, _)
DoPaintLayers(p, layerList, k, list, prevList, paintAll, budgets, finished, hover) ==
    IF k > Len(layerList)
    THEN [p |-> p, finished |-> finished, needsRefreshHover |-> hover]
    ELSE Bind(doPaintLayer(p, layerList[k], list, prevList, paintAll,
                           IF layerList[k] \in DOMAIN budgets THEN budgets[layerList[k]]
                                                              ELSE 0),
              LAMBDA r :
                  DoPaintLayers(r.p, layerList, k + 1, list, prevList, paintAll, budgets,
                                finished /\ r.finished, hover \/ r.hover))

\* _doPaintList(list, prevList, paintAll)
doPaintList(p, list, prevList, paintAll, budgets) ==
    DoPaintLayers(p, LayerList(p, paintAll), 1, list, prevList, paintAll, budgets, TRUE, FALSE)

\* hoverLayer = this._hoverlayer = this.getLayer(HOVER_LAYER_ZLEVEL), when none is set
WithHoverLayer(p) ==
    IF IsSome(p.hoverlayer) THEN p
    ELSE Bind(getLayer(p, HOVER_LAYER_ZLEVEL, FALSE), LAMBDA got :
            [got.p EXCEPT !.hoverlayer = Some(got.z)])

\* the loop of _paintHoverList (Painter.ts 237-255) from index i on;
\* began: ctx is set, that is, hoverLayer.ctx.save() was called
RECURSIVE HoverLoop(_, _, _, _, _)
HoverLoop(p, list, i, scope, began) ==
    IF i >= Len(list)
    THEN IF began THEN [p EXCEPT !.ctx[Val(p.hoverlayer)] = CtxRestore(@)] ELSE p
    ELSE IF ~p.store[list[i + 1]].inHover THEN HoverLoop(p, list, i + 1, scope, began)
    ELSE Bind(WithHoverLayer(p), LAMBDA p1 :
         Bind(brush(IF began THEN p1.ctx[Val(p1.hoverlayer)]
                             ELSE CtxSave(p1.ctx[Val(p1.hoverlayer)]),
                    p1.store[list[i + 1]], scope),
              LAMBDA r :
                  HoverLoop(Log([p1 EXCEPT !.ctx[Val(p1.hoverlayer)] = r.ctx,
                                           !.store[list[i + 1]] = r.el],
                                [op |-> "brushHover", z |-> Val(p1.hoverlayer), i |-> i,
                                 el |-> list[i + 1], color |-> "null", rects |-> None,
                                 inHover |-> scope.inHover,
                                 fresh |-> ~IsSome(scope.prevEl)]),
                            list, i + 1, r.scope, TRUE)))

\* a hover pass that leaves the hover layer as it is
HoverClearNothing(p) == p

\* hoverLayer.clear() (Painter.ts 228)
HoverClear(p) ==
    Log(p, [op |-> "clearHover", z |-> Val(p.hoverlayer), i |-> 0 - 1, el |-> 0,
            color |-> "null", rects |-> None])

\* _paintHoverList(list)
paintHoverList(p, list) ==
    Bind(IF IsSome(p.hoverlayer) THEN HoverClear(p) ELSE p,
         LAMBDA p1 : IF Len(list) = 0 THEN p1
                     ELSE HoverLoop(p1, list, 0, NewScope(TRUE), FALSE))

\* a compositing step that copies every built-in layer
IsCompositedAlways(layer) == TRUE

\* if (layer.virtual) ctx.drawImage(layer.dom, ...) (Painter.ts 307-309)
IsComposited(layer) == layer.virtual

\* the drawImage calls of _compositeManually, over eachBuiltinLayer from k on
RECURSIVE CompositeLoop(_, _, _)
CompositeLoop(p, levels, k) ==
    IF k > Len(levels) THEN p
    ELSE CompositeLoop(
            IF IsComposited(p.layers[levels[k]])
            THEN Log(p, [op |-> "drawImage", z |-> CANVAS_ZLEVEL, i |-> 0 - 1, el |-> 0,
                         color |-> "null", rects |-> Some(levels[k])])
            ELSE p,
            levels, k + 1)

\* _compositeManually()
compositeManually(p) ==
    Bind(getLayer(p, CANVAS_ZLEVEL, FALSE), LAMBDA got :
        CompositeLoop(Log(got.p, [op |-> "clearRect", z |-> got.z, i |-> 0 - 1, el |-> 0,
                                  color |-> "null", rects |-> None]),
                      BuiltinLevels(got.p), 1))

\* eachLayer(layer => layer.afterBrush && layer.afterBrush()); a layer that
\* is not built-in is taken to have no afterBrush
AfterBrushAll(p) ==
    [p EXCEPT !.layers = [z \in DOMAIN p.layers |->
                             IF p.layers[z].builtin THEN LayerAfterBrush(p.layers[z])
                             ELSE p.layers[z]]]

\* a pass that never asks for another frame
NeedsContinuationNever(finished) == FALSE

\* if (!finished) requestAnimationFrame(...) (Painter.ts 288-293)
NeedsContinuation(finished) == ~finished

\* a token check that lets every call through
IsStaleNever(current, redrawId) == FALSE

\* this._redrawId !== redrawId (Painter.ts 270)
IsStale(current, redrawId) == current # redrawId

\* _paintList(list, prevList, paintAll, redrawId), current being this._redrawId:
\* the painter afterwards, whether it ran, and whether it scheduled a continuation
paintList(p, list, prevList, paintAll, redrawId, current, budgets) ==
    IF IsStale(current, redrawId) THEN [p |-> p, ran |-> FALSE, scheduled |-> FALSE]
    ELSE
        Bind(doPaintList(updateLayerStatus(p, list), list, prevList, paintAll, budgets),
             LAMBDA r :
        Bind(IF r.p.needsManuallyCompositing THEN compositeManually(r.p) ELSE r.p,
             LAMBDA p2 :
        Bind(IF r.needsRefreshHover THEN paintHoverList(p2, list) ELSE p2,
             LAMBDA p3 :
                 IF NeedsContinuation(r.finished)
                 THEN [p |-> p3, ran |-> TRUE, scheduled |-> TRUE]
                 ELSE [p |-> AfterBrushAll(p3), ran |-> TRUE, scheduled |-> FALSE])))

\* the loop of refresh over the layers that are not built-in (Painter.ts 205-212)
RECURSIVE RefreshOtherLayers(_, _)
RefreshOtherLayers(p, i) ==
    IF i >= Len(p.zlevelList) THEN p
    ELSE RefreshOtherLayers(
            IF ~p.layers[p.zlevelList[i + 1]].builtin /\ p.layers[p.zlevelList[i + 1]].hasRefresh
            THEN Log(p, [op |-> "refresh", z |-> p.zlevelList[i + 1], i |-> 0 - 1, el |-> 0,
                         color |-> IF i = 0 THEN p.backgroundColor ELSE "null",
                         rects |-> None])
            ELSE p,
            i + 1)

\* setBackgroundColor(backgroundColor)
setBackgroundColor(p, backgroundColor) ==
    [p EXCEPT !.backgroundColor = backgroundColor,
              !.layers = [z \in DOMAIN p.layers |-> setUnpainted(p.layers[z])]]

(***************************************************************************)
(* Specification of one Layer whose createRepaintRects is called with      *)
(* display lists of up to MaxCands elements, all of them in its range.     *)
(***************************************************************************)
VARIABLES
    rrLayer,    \* the layer
    rrStore,    \* the elements of the display list of the last call
    rrOut,      \* the last call: what ran, what it returned, the pool after each add, the merge rounds
    rrCalls     \* createRepaintRects calls since construction or setUnpainted (2 = more)

rrVars == <<rrLayer, rrStore, rrOut, rrCalls>>

MaxCands == 4
MaxCap == 3

RectA == Rect(0, 0, 2, 2)
RectB == Rect(1, 1, 2, 2)
RectC == Rect(5, 0, 1, 1)
RectD == Rect(0, 5, 1, 1)
RectE == Rect(8, 8, 1, 1)
RectT == Rect(2, 3, 1, 1)
RectU == Rect(6, 1, 1, 1)
RectZero == Rect(3, 3, 0, 2)

\* elements not yet rendered, one per rectangle, and one rendered element that moved
RRElems ==
    { [NewEl EXCEPT !.rect = r] : r \in {RectA, RectB, RectC, RectD, RectE, RectZero, NaNRect} }
    \cup { [NewEl EXCEPT !.isRendered = TRUE, !.prevRect = Some(RectT), !.rect = RectU] }

RRNoCall == [op |-> "new", rects |-> None, cands |-> <<>>, trace |-> <<>>, rounds |-> <<>>]

RRInit ==
    /\ \E cap \in 1..MaxCap :
         rrLayer = [NewLayer(0) EXCEPT !.builtin = TRUE, !.maxRepaintRectCount = cap]
    /\ rrStore = <<>>
    /\ rrOut = RRNoCall
    /\ rrCalls = 0

\* the provider appends an element to the display list; the layer owns all of it
RRAddElement ==
    /\ Len(rrStore) < MaxCands
    /\ \E el \in RRElems : rrStore' = Append(rrStore, el)
    /\ rrLayer' = [rrLayer EXCEPT !.endIndex = Len(rrStore) + 1]
    /\ rrOut' = [RRNoCall EXCEPT !.op = "add"]
    /\ UNCHANGED rrCalls

\* the provider empties the display list
RRClearList ==
    /\ Len(rrStore) > 0
    /\ rrStore' = <<>>
    /\ rrLayer' = [rrLayer EXCEPT !.endIndex = 0]
    /\ rrOut' = [RRNoCall EXCEPT !.op = "clear"]
    /\ UNCHANGED rrCalls

RRCreateRepaintRects ==
    LET displayList == [i \in 1..Len(rrStore) |-> i]
        r == createRepaintRects(rrLayer, rrStore, displayList, <<>>)
    IN  /\ rrLayer' = r.layer
        /\ rrOut' = [op |-> "createRepaintRects", rects |-> r.rects,
                     cands |-> r.cands, trace |-> r.trace, rounds |-> r.rounds]
        /\ rrCalls' = Min(rrCalls + 1, 2)
        /\ UNCHANGED rrStore

RRSetUnpainted ==
    /\ rrLayer' = setUnpainted(rrLayer)
    /\ rrOut' = [RRNoCall EXCEPT !.op = "setUnpainted"]
    /\ rrCalls' = 0
    /\ UNCHANGED rrStore

(***************************************************************************)
(* Specification of brush: passes over one surface, each with a new scope, *)
(* brushing up to MaxBrushes elements drawn from BrushInputs.              *)
(***************************************************************************)
VARIABLES
    brCtx,      \* the surface's context
    brScope,    \* the scope of the pass
    brEl,       \* the element last handed to brush, as brush left it
    brLast,     \* the last step: what ran, the element handed in, ctx and scope before
    brCount     \* brush calls in this pass

brVars == <<brCtx, brScope, brEl, brLast, brCount>>

MaxBrushes == 2

Colours == {"null", "none", "#f00", "gradient"}
LineWidths == {0, 2}
ClipLists == {None, Some(<<>>), Some(<<1>>), Some(<<2>>)}

StyledPaths ==
    { [NewEl EXCEPT !.id = 1,
                    !.style = [DefaultStyle EXCEPT !.fill = f, !.stroke = s, !.lineWidth = w]] :
        f \in Colours, s \in Colours, w \in LineWidths }

ClippedPaths == { [NewEl EXCEPT !.id = 2, !.clipPaths = c, !.transform = Some(1)] : c \in ClipLists }

ShapedPaths ==
    { [NewEl EXCEPT !.id = 3, !.shape = sh, !.style = [DefaultStyle EXCEPT !.fill = "none",
                                                                         !.stroke = "#00f"]] :
        sh \in {"none", "point", "circle", "line"} }

TextEls == { [NewEl EXCEPT !.id = 4, !.kind = "text",
                           !.style = [DefaultStyle EXCEPT !.text = t, !.strokeFirst = sf,
                                                          !.stroke = "#f00"]] :
             t \in {"", "abc"}, sf \in BOOLEAN }

ImageEls == { [NewEl EXCEPT !.id = 5, !.kind = "image",
                            !.style = [DefaultStyle EXCEPT !.image = im]] :
              im \in {"loading", "ready"} }

OtherEls == { [NewEl EXCEPT !.id = 6, !.kind = "other"],
              [NewEl EXCEPT !.id = 7, !.isRendered = TRUE, !.dirty = 0, !.path = Some("line"),
                            !.hoverStyle = Some([DefaultStyle EXCEPT !.fill = "none",
                                                                     !.stroke = "#0f0"])] }

ChildA == [NewEl EXCEPT !.id = 11]
ChildClipped == [NewEl EXCEPT !.id = 12, !.clipPaths = Some(<<1>>)]
ChildIgnored == [NewEl EXCEPT !.id = 13, !.ignore = TRUE]
ChildText == [NewEl EXCEPT !.id = 14, !.kind = "text", !.style = [DefaultStyle EXCEPT !.text = "t"]]
ChildIgnoredImage == [NewEl EXCEPT !.id = 15, !.kind = "image", !.ignore = TRUE,
                                   !.style = [DefaultStyle EXCEPT !.image = "ready"]]
ChildB == [NewEl EXCEPT !.id = 16]

IncrementalEls ==
    { [NewEl EXCEPT !.id = 8, !.kind = "incremental", !.incremental = TRUE,
                    !.displayables = ds, !.temporal = ts, !.cursor = cur] :
        ds \in { <<>>, <<ChildA, ChildIgnored>>, <<ChildA, ChildClipped>>,
                 <<ChildA, ChildIgnoredImage, ChildB>> },
        ts \in { <<>>, <<ChildText>> },
        cur \in {0, 1} }

Paintable == StyledPaths \cup ClippedPaths \cup ShapedPaths \cup TextEls \cup ImageEls
             \cup OtherEls \cup { e \in IncrementalEls : e.cursor <= Len(e.displayables) }

\* every element, and again with the ignore flag set
BrushInputs ==
    Paintable
    \cup { [e EXCEPT !.ignore = TRUE] : e \in ClippedPaths \cup IncrementalEls \cup OtherEls }
    \cup { [e EXCEPT !.ignore = TRUE, !.rect = r] :
             e \in TextEls \cup ImageEls, r \in {RectZero, NaNRect} }

BrInit ==
    /\ brCtx = NewCtx
    /\ \E h \in BOOLEAN : brScope = NewScope(h)
    /\ brEl = NewEl
    /\ brLast = [op |-> "new", el |-> NewEl, ctx |-> NewCtx, scope |-> NewScope(FALSE),
                 args |-> <<>>]
    /\ brCount = 0

\* a caller creates a scope for a new pass (Painter.ts 234, 368; graphic.ts 410)
BrNewScope ==
    /\ brCount > 0
    /\ brCtx' = NewCtx
    /\ \E h \in BOOLEAN : brScope' = NewScope(h)
    /\ brEl' = NewEl
    /\ brLast' = [op |-> "new", el |-> NewEl, ctx |-> NewCtx, scope |-> NewScope(FALSE),
                  args |-> <<>>]
    /\ brCount' = 0

BrBrush ==
    /\ brCount < MaxBrushes
    /\ \E el \in BrushInputs :
         LET r == brush(brCtx, el, brScope)
         IN  /\ brCtx' = r.ctx
             /\ brScope' = r.scope
             /\ brEl' = r.el
             /\ brLast' = [op |-> "brush", el |-> el, ctx |-> brCtx, scope |-> brScope,
                           args |-> <<>>]
    /\ brCount' = brCount + 1

\* the repaint rectangles _doPaintEl is called with: none, one the elements'
\* paint rectangle meets, one it does not
BrRepaintRects == {None, Some(RectA), Some(RectE)}

\* _doPaintEl(el, currentLayer, useDirtyRect, repaintRect, scope, isLast)
BrDoPaintEl ==
    /\ brCount < MaxBrushes
    /\ \E el \in BrushInputs, useDirtyRect \in BOOLEAN, repaintRect \in BrRepaintRects :
         \E r \in { PaintEl(brCtx, el, useDirtyRect, repaintRect, brScope) } :
             /\ useDirtyRect \/ repaintRect = None
             /\ brCtx' = r.ctx
             /\ brScope' = r.scope
             /\ brEl' = r.el
             /\ brLast' = [op |-> "doPaintEl", el |-> el, ctx |-> brCtx, scope |-> brScope,
                           args |-> <<useDirtyRect, repaintRect, r.brushed>>]
    /\ brCount' = brCount + 1

(***************************************************************************)
(* Specification of the painter with its storage: elements are added to,   *)
(* removed from and changed in the display list between calls of refresh,  *)
(* refreshHover and setBackgroundColor.  The display list stays sorted by  *)
(* z-level, as Storage.getDisplayList hands it over.                       *)
(***************************************************************************)
VARIABLES
    painter,          \* the RPainter with its layers, contexts and the elements
    displayList,      \* storage.getDisplayList(): ids of the elements, in order
    prevDisplayList,  \* _prevDisplayList
    redrawId,         \* _redrawId; 0 before the first refresh
    pending,          \* the continuations requestAnimationFrame holds, oldest first
    pLast,            \* the last step: what ran, on which list, what _paintList reported
                      \* and how long the log was before it
    passes,           \* the elements the main pass of each of the last two refreshes brushed
    pSteps            \* the steps taken so far

pVars == <<painter, displayList, prevDisplayList, redrawId, pending, pLast, passes, pSteps>>

MaxSteps == 5
MaxEls == 3
MaxPending == 2
MaxTimer == 2

ZLevels == {0, ZUnit}

\* getPaintRect() of the element with a given id
PaintRectOf(id) == CASE id = 1 -> RectA [] id = 2 -> RectC [] id = 3 -> RectB [] OTHER -> RectZero

SubElement == [NewEl EXCEPT !.id = 100]

\* a new element: a path, or an incremental container holding one path
NewElement(id, zlevel, incremental) ==
    IF incremental
    THEN [NewEl EXCEPT !.id = id, !.zlevel = zlevel, !.rect = PaintRectOf(id),
                       !.kind = "incremental", !.incremental = TRUE,
                       !.displayables = <<SubElement>>]
    ELSE [NewEl EXCEPT !.id = id, !.zlevel = zlevel, !.rect = PaintRectOf(id)]

\* one more step, while the bound allows it
Step == pSteps < MaxSteps /\ pSteps' = pSteps + 1

InsertAt(seq, k, v) == SubSeq(seq, 1, k) \o <<v>> \o SubSeq(seq, k + 1, Len(seq))

SortedByZlevel(store, list) ==
    \A i \in 1..(Len(list) - 1) : store[list[i]].zlevel <= store[list[i + 1]].zlevel

NoPass == [list |-> <<>>, brushed |-> {}]

\* the elements a main pass brushed, each with the layer that brushed it
BrushedBy(log) ==
    { <<log[k].el, log[k].z>> : k \in { j \in 1..Len(log) : log[j].op = "brush" } }

\* the painter at the start of a call: the records of what the last call did
\* to the surfaces are dropped
StartCall(p) ==
    [p EXCEPT !.log = <<>>,
              !.ctx = [z \in DOMAIN p.ctx |-> [p.ctx[z] EXCEPT !.calls = <<>>]]]

\* Date.now() budgets of the incremental layers a call may paint
IncrementalLevels == { z + INCREMENTAL_INC : z \in ZLevels }
NoTimer == [z \in IncrementalLevels |-> 0]

LastOf(op, list) ==
    [op |-> op, list |-> list, ran |-> FALSE, scheduled |-> FALSE, from |-> 0, args |-> <<>>]

PInit ==
    /\ \E singleCanvas, useDirtyRect \in BOOLEAN :
          painter = NewPainter(singleCanvas, useDirtyRect)
    /\ displayList = <<>>
    /\ prevDisplayList = <<>>
    /\ redrawId = 0
    /\ pending = <<>>
    /\ pLast = LastOf("new", <<>>)
    /\ passes = <<NoPass, NoPass>>
    /\ pSteps = 0

\* storage.addRoot(el), seen through the sorted display list
AddElement ==
    /\ Step
    /\ Len(painter.store) < MaxEls
    /\ \E zlevel \in ZLevels, incremental \in BOOLEAN :
          LET id == Len(painter.store) + 1
              store == Append(painter.store, NewElement(id, zlevel, incremental))
              \* behind the elements of its z-level and of those below
              k == Cardinality({ j \in 1..Len(displayList) :
                                    painter.store[displayList[j]].zlevel <= zlevel })
              list == InsertAt(displayList, k, id)
          IN  /\ SortedByZlevel(store, list)
              /\ painter' = [painter EXCEPT !.store = store]
              /\ displayList' = list
              /\ pLast' = LastOf("addElement", list)
    /\ UNCHANGED <<prevDisplayList, redrawId, pending, passes>>

\* elements with clip paths: a path with no, an empty or a non-empty clip-path
\* list, and an incremental container whose sub-elements carry clip paths
ClippedElements(id) ==
    { [NewElement(id, 0, FALSE) EXCEPT !.clipPaths = c] : c \in ClipLists }
    \cup { [NewElement(id, 0, TRUE) EXCEPT !.displayables = ds] :
              ds \in { <<ChildA, ChildClipped>>, <<ChildClipped, ChildIgnored>>,
                       <<ChildClipped, ChildA>> } }

\* storage.addRoot(el) of such an element, behind the others
AddClippedElement ==
    /\ Step
    /\ Len(painter.store) < MaxEls
    /\ \E el \in ClippedElements(Len(painter.store) + 1) :
          /\ SortedByZlevel(Append(painter.store, el), Append(displayList, el.id))
          /\ painter' = [painter EXCEPT !.store = Append(painter.store, el)]
          /\ displayList' = Append(displayList, el.id)
          /\ pLast' = LastOf("addElement", Append(displayList, el.id))
    /\ UNCHANGED <<prevDisplayList, redrawId, pending, passes>>

\* storage.delRoot(el), or el.ignore = true: the element leaves the display list
RemoveElement ==
    /\ Step
    /\ \E k \in 1..Len(displayList), hide \in BOOLEAN :
          LET id == displayList[k]
              list == SubSeq(displayList, 1, k - 1) \o SubSeq(displayList, k + 1, Len(displayList))
          IN  /\ painter' = IF hide THEN [painter EXCEPT !.store[id].ignore = TRUE]
                                    ELSE [painter EXCEPT !.store[id].inZr = FALSE]
              /\ displayList' = list
              /\ pLast' = LastOf("removeElement", list)
    /\ UNCHANGED <<prevDisplayList, redrawId, pending, passes>>

\* el.markRedraw() on a painted element
MarkRedraw ==
    /\ Step
    /\ \E k \in 1..Len(displayList) :
          LET id == displayList[k]
          IN  /\ ~HasBit(painter.store[id].dirty, REDRAW_BIT)
              /\ painter' = [painter EXCEPT !.store[id].dirty = @ + REDRAW_BIT]
    /\ pLast' = LastOf("markRedraw", displayList)
    /\ UNCHANGED <<displayList, prevDisplayList, redrawId, pending, passes>>

\* an element enters or leaves the hover state
ToggleHover ==
    /\ Step
    /\ \E k \in 1..Len(displayList) :
          painter' = [painter EXCEPT !.store[displayList[k]].inHover = ~@]
    /\ pLast' = LastOf("toggleHover", displayList)
    /\ UNCHANGED <<displayList, prevDisplayList, redrawId, pending, passes>>

\* Math.random(): a token no call in flight carries
NewRedrawId ==
    CHOOSE n \in 1..(MaxPending + 2) :
        /\ n # redrawId
        /\ \A k \in 1..Len(pending) : pending[k].redrawId # n

\* refresh(paintAll) with paintAllPassed in the place of the literal true that
\* refresh hands to _paintList (Painter.ts 201)
RefreshPassing(paintAllPassed, budgets) ==
    LET list == displayList
        id == NewRedrawId
    IN  \E r \in { paintList(StartCall(painter), list, prevDisplayList, paintAllPassed,
                             id, id, budgets) } :
        /\ Step
        /\ Len(pending) < MaxPending
        /\ redrawId' = id
        /\ painter' = RefreshOtherLayers(r.p, 0)
        /\ pending' = IF r.scheduled
                      THEN Append(pending, [list |-> list, prevList |-> prevDisplayList,
                                            paintAll |-> paintAllPassed, redrawId |-> id])
                      ELSE pending
        /\ prevDisplayList' = IF painter.useDirtyRect THEN list ELSE prevDisplayList
        /\ pLast' = [op |-> "refresh", list |-> list, ran |-> r.ran,
                     scheduled |-> r.scheduled, from |-> 0, args |-> <<>>]
        /\ passes' = <<passes[2], [list |-> list, brushed |-> BrushedBy(r.p.log)]>>
        /\ UNCHANGED displayList

\* a refresh that hands paintAll = false to _paintList
RefreshNotAll == RefreshPassing(FALSE, NoTimer)

\* refresh()
Refresh == RefreshPassing(TRUE, NoTimer)

\* A caller that, unlike refresh, passes paintAll = false to _paintList, as
\* PainterBase.refresh(paintAll) is declared; the timer of each incremental
\* layer runs out after any number of rounds, or not at all
RefreshPartial ==
    \E budgets \in [IncrementalLevels -> 0..MaxTimer] : RefreshPassing(FALSE, budgets)

\* requestAnimationFrame fires the oldest continuation (Painter.ts 290-292)
Continuation ==
    /\ Step
    /\ Len(pending) > 0
    /\ \E budgets \in [IncrementalLevels -> 0..MaxTimer] :
          LET c == Head(pending)
          IN  \E r \in { paintList(painter, c.list, c.prevList, c.paintAll, c.redrawId,
                                   redrawId, budgets) } :
              /\ painter' = r.p
              /\ pending' = IF r.scheduled THEN Append(Tail(pending), c) ELSE Tail(pending)
              /\ pLast' = [op |-> "continuation", list |-> c.list, ran |-> r.ran,
                           scheduled |-> r.scheduled, from |-> Len(painter.log),
                           args |-> <<>>]
    /\ UNCHANGED <<displayList, prevDisplayList, redrawId, passes>>

\* elements of either kind, ignored or not; a new element has its REDRAW bit set
IgnorableElements(id) ==
    { [NewElement(id, zlevel, incremental) EXCEPT !.ignore = ignore] :
         zlevel \in {0}, incremental \in BOOLEAN, ignore \in BOOLEAN }

\* storage.addRoot(el) of such an element, behind the others, while no
\* continuation is pending
AddIgnorableElement ==
    /\ Step
    /\ pending = <<>>
    /\ Len(painter.store) < MaxEls
    /\ \E el \in IgnorableElements(Len(painter.store) + 1) :
          /\ SortedByZlevel(Append(painter.store, el), Append(displayList, el.id))
          /\ painter' = [painter EXCEPT !.store = Append(painter.store, el)]
          /\ displayList' = Append(displayList, el.id)
          /\ pLast' = LastOf("addElement", Append(displayList, el.id))
    /\ UNCHANGED <<prevDisplayList, redrawId, pending, passes>>

\* a repaint that is not full, called while no continuation is pending
RefreshPartialIdle == pending = <<>> /\ RefreshPartial

\* the timer of the incremental layer of z-level 0 runs out after any number
\* of rounds, or not at all
FrameBudgets ==
    { [z \in IncrementalLevels |-> IF z = INCREMENTAL_INC THEN b ELSE 0] : b \in 0..MaxTimer }

\* the animation frames are told apart by their parity, so that a frame that
\* leaves the painter as the frame before left it is a step all the same
FrameAfter(last) ==
    IF last.op = "continuation" /\ last.args = <<0>> THEN 1 ELSE 0

\* requestAnimationFrame fires the oldest continuation (Painter.ts 290-292),
\* as often as one is pending; the records of the call before are dropped
Frame ==
    /\ Len(pending) > 0
    /\ \E r \in Image(LAMBDA budgets :
                         paintList(StartCall(painter), Head(pending).list,
                                   Head(pending).prevList, Head(pending).paintAll,
                                   Head(pending).redrawId, redrawId, budgets),
                      FrameBudgets) :
          /\ painter' = r.p
          /\ pending' = IF r.scheduled THEN Append(Tail(pending), Head(pending))
                        ELSE Tail(pending)
          /\ pLast' = [op |-> "continuation", list |-> Head(pending).list, ran |-> r.ran,
                       scheduled |-> r.scheduled, from |-> 0,
                       args |-> <<FrameAfter(pLast)>>]
    /\ UNCHANGED <<displayList, prevDisplayList, redrawId, passes, pSteps>>

\* refreshHover()
RefreshHover ==
    /\ Step
    /\ painter' = paintHoverList(StartCall(painter), displayList)
    /\ pLast' = LastOf("refreshHover", displayList)
    /\ UNCHANGED <<displayList, prevDisplayList, redrawId, pending, passes>>

\* the z-levels and layers a caller hands to insertLayer: a level elements
\* use and the level of a single canvas; layers made by the caller, with or
\* without resize and refresh, and a built-in one
InsertLevels == {0, CANVAS_ZLEVEL}
InsertLayers ==
    { [NewLayer(z) EXCEPT !.hasResize = rs, !.hasRefresh = rf] :
         z \in InsertLevels, rs \in BOOLEAN, rf \in BOOLEAN }
    \cup { [NewLayer(z) EXCEPT !.builtin = TRUE] : z \in InsertLevels }

\* insertLayer(zlevel, layer)
InsertLayer ==
    /\ Step
    /\ \E zlevel \in InsertLevels, layer \in InsertLayers :
          /\ layer.zlevel = zlevel
          /\ painter' = insertLayer(painter, zlevel, layer)
          /\ pLast' = [LastOf("insertLayer", displayList) EXCEPT !.args = <<zlevel, layer>>]
    /\ UNCHANGED <<displayList, prevDisplayList, redrawId, pending, passes>>

\* the z-levels the caller names in getLayer, insertLayer and delLayer
LayerLevels == {0, ZUnit, 2 * ZUnit, CANVAS_ZLEVEL}
LayersAnywhere ==
    { [NewLayer(z) EXCEPT !.hasResize = rs, !.hasRefresh = rs] : z \in LayerLevels, rs \in BOOLEAN }

\* getLayer(zlevel, virtual)
GetLayer ==
    /\ Step
    /\ \E zlevel \in LayerLevels, virtual \in BOOLEAN :
          /\ painter' = getLayer(painter, zlevel, virtual).p
          /\ pLast' = [LastOf("getLayer", displayList) EXCEPT !.args = <<zlevel, virtual>>]
    /\ UNCHANGED <<displayList, prevDisplayList, redrawId, pending, passes>>

\* insertLayer(zlevel, layer), at any of the z-levels
InsertLayerAnywhere ==
    /\ Step
    /\ \E zlevel \in LayerLevels, layer \in LayersAnywhere :
          /\ layer.zlevel = zlevel
          /\ painter' = insertLayer(painter, zlevel, layer)
          /\ pLast' = [LastOf("insertLayer", displayList) EXCEPT !.args = <<zlevel, layer>>]
    /\ UNCHANGED <<displayList, prevDisplayList, redrawId, pending, passes>>

\* delLayer(zlevel)
DelLayer ==
    /\ Step
    /\ \E zlevel \in LayerLevels :
          /\ painter' = delLayer(painter, zlevel)
          /\ pLast' = [LastOf("delLayer", displayList) EXCEPT !.args = <<zlevel>>]
    /\ UNCHANGED <<displayList, prevDisplayList, redrawId, pending, passes>>

\* setBackgroundColor(backgroundColor)
SetBackgroundColor ==
    /\ Step
    /\ \E c \in {"#fff"} : painter' = setBackgroundColor(painter, c)
    /\ pLast' = LastOf("setBackgroundColor", displayList)
    /\ UNCHANGED <<displayList, prevDisplayList, redrawId, pending, passes>>

(***************************************************************************)
(* Specifications                                                          *)
(***************************************************************************)
vars == <<recVars, rrVars, brVars, pVars>>

RecIdle ==
    /\ parts = <<>>
    /\ recLast = [op |-> "new", args |-> <<>>, before |-> <<>>]
    /\ recCalls = 0

RRIdle ==
    /\ rrLayer = NewLayer(0)
    /\ rrStore = <<>>
    /\ rrOut = RRNoCall
    /\ rrCalls = 0

BrIdle ==
    /\ brCtx = NewCtx
    /\ brScope = NewScope(FALSE)
    /\ brEl = NewEl
    /\ brLast = [op |-> "new", el |-> NewEl, ctx |-> NewCtx, scope |-> NewScope(FALSE),
                 args |-> <<>>]
    /\ brCount = 0

PIdle ==
    /\ painter = NewPainter(FALSE, FALSE)
    /\ displayList = <<>>
    /\ prevDisplayList = <<>>
    /\ redrawId = 0
    /\ pending = <<>>
    /\ pLast = LastOf("new", <<>>)
    /\ passes = <<NoPass, NoPass>>
    /\ pSteps = 0

InitRecorder == RecInit /\ RRIdle /\ BrIdle /\ PIdle
NextRecorder ==
    \/ RecMoveTo /\ UNCHANGED <<rrVars, brVars, pVars>>
    \/ RecLineTo /\ UNCHANGED <<rrVars, brVars, pVars>>
    \/ RecBezierCurveTo /\ UNCHANGED <<rrVars, brVars, pVars>>
    \/ RecQuadraticCurveTo /\ UNCHANGED <<rrVars, brVars, pVars>>
    \/ RecRect /\ UNCHANGED <<rrVars, brVars, pVars>>
    \/ RecClosePath /\ UNCHANGED <<rrVars, brVars, pVars>>
    \/ RecArc /\ UNCHANGED <<rrVars, brVars, pVars>>
    \/ RecNew /\ UNCHANGED <<rrVars, brVars, pVars>>
SpecRecorder == InitRecorder /\ [][NextRecorder]_vars

InitRepaintRects == RRInit /\ RecIdle /\ BrIdle /\ PIdle
NextRepaintRects ==
    \/ RRAddElement /\ UNCHANGED <<recVars, brVars, pVars>>
    \/ RRClearList /\ UNCHANGED <<recVars, brVars, pVars>>
    \/ RRCreateRepaintRects /\ UNCHANGED <<recVars, brVars, pVars>>
    \/ RRSetUnpainted /\ UNCHANGED <<recVars, brVars, pVars>>
SpecRepaintRects == InitRepaintRects /\ [][NextRepaintRects]_vars

InitBrush == BrInit /\ RecIdle /\ RRIdle /\ PIdle
NextBrush ==
    \/ BrNewScope /\ UNCHANGED <<recVars, rrVars, pVars>>
    \/ BrBrush /\ UNCHANGED <<recVars, rrVars, pVars>>
    \/ BrDoPaintEl /\ UNCHANGED <<recVars, rrVars, pVars>>
SpecBrush == InitBrush /\ [][NextBrush]_vars

\* the painter as the program drives it
Init == PInit /\ RecIdle /\ RRIdle /\ BrIdle
Next ==
    \/ AddElement /\ UNCHANGED <<recVars, rrVars, brVars>>
    \/ RemoveElement /\ UNCHANGED <<recVars, rrVars, brVars>>
    \/ MarkRedraw /\ UNCHANGED <<recVars, rrVars, brVars>>
    \/ ToggleHover /\ UNCHANGED <<recVars, rrVars, brVars>>
    \/ Refresh /\ UNCHANGED <<recVars, rrVars, brVars>>
    \/ RefreshHover /\ UNCHANGED <<recVars, rrVars, brVars>>
    \/ SetBackgroundColor /\ UNCHANGED <<recVars, rrVars, brVars>>
Spec == Init /\ [][Next]_vars

\* _paintList under callers that may pass paintAll = false
NextPaintList ==
    \/ AddElement /\ UNCHANGED <<recVars, rrVars, brVars>>
    \/ MarkRedraw /\ UNCHANGED <<recVars, rrVars, brVars>>
    \/ Refresh /\ UNCHANGED <<recVars, rrVars, brVars>>
    \/ RefreshPartial /\ UNCHANGED <<recVars, rrVars, brVars>>
    \/ Continuation /\ UNCHANGED <<recVars, rrVars, brVars>>
SpecPaintList == Init /\ [][NextPaintList]_vars

\* the painter over elements with clip paths
NextClip ==
    \/ AddClippedElement /\ UNCHANGED <<recVars, rrVars, brVars>>
    \/ Refresh /\ UNCHANGED <<recVars, rrVars, brVars>>
SpecClip == Init /\ [][NextClip]_vars

\* the painter with layers inserted by the caller
NextInsertLayer ==
    \/ AddElement /\ UNCHANGED <<recVars, rrVars, brVars>>
    \/ Refresh /\ UNCHANGED <<recVars, rrVars, brVars>>
    \/ InsertLayer /\ UNCHANGED <<recVars, rrVars, brVars>>
SpecInsertLayer == Init /\ [][NextInsertLayer]_vars

\* the painter's layers as the caller creates and deletes them
NextLayers ==
    \/ GetLayer /\ UNCHANGED <<recVars, rrVars, brVars>>
    \/ InsertLayerAnywhere /\ UNCHANGED <<recVars, rrVars, brVars>>
    \/ DelLayer /\ UNCHANGED <<recVars, rrVars, brVars>>
SpecLayers == Init /\ [][NextLayers]_vars

\* the chain of continuations of a repaint that is not full: the browser
\* runs every animation frame that was requested
NextFrames ==
    \/ AddIgnorableElement /\ UNCHANGED <<recVars, rrVars, brVars>>
    \/ RefreshPartialIdle /\ UNCHANGED <<recVars, rrVars, brVars>>
    \/ Frame /\ UNCHANGED <<recVars, rrVars, brVars>>
SpecFrames ==
    Init /\ [][NextFrames]_vars /\ WF_vars(Frame /\ UNCHANGED <<recVars, rrVars, brVars>>)

(***************************************************************************)
(* Properties of Layer.createRepaintRects (SpecRepaintRects)               *)
(***************************************************************************)
RRCreated == rrOut.op = "createRepaintRects" /\ IsSome(rrOut.rects)

\* the pool before the i-th addRectToMergePool call of the last createRepaintRects
RRPoolBefore(i) == IF i = 1 THEN EmptyPool.pool ELSE rrOut.trace[i - 1].pool

RRUsable(cand) == cand.fin /\ cand.width # 0 /\ cand.height # 0

\* C3: the list createRepaintRects returns never has more rectangles than
\* maxRepaintRectCount (from 1 on), and the merge pool never holds more
\* entries than that after any candidate is added.
C3_MergeCap ==
    RRCreated =>
        /\ Len(Val(rrOut.rects)) <= rrLayer.maxRepaintRectCount
        /\ \A i \in 1..Len(rrOut.trace) :
              Len(rrOut.trace[i].pool) <= rrLayer.maxRepaintRectCount

\* C4: every finite candidate of non-zero area handed to addRectToMergePool
\* in one createRepaintRects call lies inside some rectangle of the returned
\* list, and a non-finite or zero-area candidate leaves the pool as it was,
\* so that no pool entry is ever non-finite or of zero area.
C4_OutputCoversCandidates ==
    RRCreated =>
        /\ \A i \in 1..Len(rrOut.cands) :
              IF RRUsable(rrOut.cands[i])
              THEN \E k \in 1..Len(Val(rrOut.rects)) :
                      LET out == Val(rrOut.rects)[k]
                          c == rrOut.cands[i]
                      IN  /\ out.fin
                          /\ out.x <= c.x /\ c.x + c.width <= out.x + out.width
                          /\ out.y <= c.y /\ c.y + c.height <= out.y + out.height
              ELSE rrOut.trace[i].pool = RRPoolBefore(i)
        /\ \A i \in 1..Len(rrOut.trace) :
              \A k \in 1..Len(rrOut.trace[i].pool) : RRUsable(rrOut.trace[i].pool[k])

\* a call that was handed a zero-area, a non-finite and two overlapping
\* candidates, and returned the union of the two
C4_Witness ==
    /\ RRCreated
    /\ \E i \in 1..Len(rrOut.cands) : rrOut.cands[i] = RectZero
    /\ \E i \in 1..Len(rrOut.cands) : rrOut.cands[i] = NaNRect
    /\ \E i, j \in 1..Len(rrOut.cands) : rrOut.cands[i] = RectA /\ rrOut.cands[j] = RectB
    /\ rrOut.rects = Some(<<Rect(0, 0, 3, 3)>>)

\* C5: createRepaintRects returns null exactly when it is the first call
\* since the layer was constructed or since its last setUnpainted; that call
\* clears the first-paint flag, so every later call returns a list.
C5_NullOnlyOnFirstPaint ==
    /\ rrLayer.firstTimePaint <=> (rrCalls = 0)
    /\ rrOut.op = "createRepaintRects" =>
          /\ rrCalls >= 1
          /\ (rrOut.rects = None) <=> (rrCalls = 1)

\* a second call since setUnpainted that returned the empty list
C5_Witness ==
    /\ rrOut.op = "createRepaintRects"
    /\ rrCalls = 2
    /\ rrOut.rects = Some(<<>>)
    /\ ~rrLayer.firstTimePaint

\* the first entry of the pool before the i-th add that the i-th candidate
\* intersects (Len + 1 when there is none)
RRFirstHit(i) == FirstIntersecting(RRPoolBefore(i), rrOut.cands[i])

RRHits(i) == RRUsable(rrOut.cands[i]) /\ RRFirstHit(i) <= Len(RRPoolBefore(i))

\* C24: a candidate that intersects a pool entry is unioned into the first
\* such entry in pool order and every other entry of the pool stays as it
\* was, whether the pool is below capacity or has reached it.
C24_UnionIntoFirstHit ==
    RRCreated =>
        \A i \in 1..Len(rrOut.cands) :
            RRHits(i) =>
                rrOut.trace[i].pool =
                    [RRPoolBefore(i) EXCEPT ![RRFirstHit(i)] =
                        RectUnion(RRPoolBefore(i)[RRFirstHit(i)], rrOut.cands[i])]

\* the i-th candidate is usable and meets no entry of the pool it is added to
RRMisses(i) == RRUsable(rrOut.cands[i]) /\ RRFirstHit(i) > Len(RRPoolBefore(i))

\* entry k of the pool has the least area(union) - area(candidate) -
\* area(entry) for the candidate, and is the first entry that has it
RRLeastDelta(pool, k, cand) ==
    /\ \A j \in 1..Len(pool) : DeltaArea(pool, k, cand) <= DeltaArea(pool, j, cand)
    /\ \A j \in 1..(k - 1) : DeltaArea(pool, k, cand) < DeltaArea(pool, j, cand)

RRMergedIntoLeast(before, after, cand) ==
    /\ Len(after) = Len(before)
    /\ \E k \in 1..Len(before) :
          /\ RRLeastDelta(before, k, cand)
          /\ after = [before EXCEPT ![k] = RectUnion(before[k], cand)]

\* C25: once the pool has reached capacity (it holds maxRepaintRectCount
\* entries or more), a candidate that intersects no pool entry is unioned
\* into the entry of least area(union) - area(candidate) - area(entry), the
\* first such entry on ties, and the pool keeps its size.
C25_WorstFitAtCapacity ==
    RRCreated =>
        \A i \in 1..Len(rrOut.cands) :
            (RRMisses(i) /\ PoolIsFull(RRPoolBefore(i), rrLayer.maxRepaintRectCount)) =>
                RRMergedIntoLeast(RRPoolBefore(i), rrOut.trace[i].pool, rrOut.cands[i])

\* the pool the fixed-point pass of the last createRepaintRects started from
RRPoolAdded == RRPoolBefore(Len(rrOut.trace) + 1)

\* the pool at the start of round n of the fixed-point pass
RRRoundStart(n) == IF n = 1 THEN RRPoolAdded ELSE rrOut.rounds[n - 1].pool

RRDisjoint(rects) ==
    \A i, j \in 1..Len(rects) : i # j => ~RectIntersect(rects[i], rects[j])

\* C26: the list createRepaintRects returns has no rectangle of zero area
\* and no two rectangles that intersect; the fixed-point pass ends: every
\* round that found an intersection left the pool strictly shorter than it
\* found it, and the last round found none.
C26_DisjointFixedPoint ==
    RRCreated =>
        /\ \A k \in 1..Len(Val(rrOut.rects)) : ~RectIsZero(Val(rrOut.rects)[k])
        /\ RRDisjoint(Val(rrOut.rects))
        /\ Len(rrOut.rounds) >= 1
        /\ \A n \in 1..Len(rrOut.rounds) :
              /\ rrOut.rounds[n].has <=> (n < Len(rrOut.rounds))
              /\ rrOut.rounds[n].has => Len(rrOut.rounds[n].pool) < Len(RRRoundStart(n))
        /\ Val(rrOut.rects) = rrOut.rounds[Len(rrOut.rounds)].pool

\* a call whose adds left two entries that intersect ((0,0,3,3), grown by a
\* union, and (2,3,1,1)), which the fixed-point pass merged in its first
\* round and found disjoint in its second
C26_Witness ==
    /\ RRCreated
    /\ ~RRDisjoint(RRPoolAdded)
    /\ Len(rrOut.rounds) = 2
    /\ Len(Val(rrOut.rects)) < Len(RRPoolAdded)

(***************************************************************************)
(* Properties of SVGPathRecorder (SpecRecorder)                            *)
(***************************************************************************)
RecAdded == SubSeq(parts, Len(recLast.before) + 1, Len(parts))

\* the descriptor once token is appended to what was recorded before
RecJoined(token) ==
    IF Len(recLast.before) = 0 THEN token ELSE getPath(recLast.before) \o " " \o token

RecText(n) == ToString(n)

\* C9: rect(x, y, w, h) appends move to (x, y), line to (x+w, y), line to
\* (x+w, y+h), line to (x, y+h), close, so that a lone rect(0, 0, 10, 10)
\* gives "M 0 0 L 10 0 L 10 10 L 0 10 Z"; moveTo, lineTo, bezierCurveTo,
\* quadraticCurveTo and closePath each append one token M, L, C, Q, Z with
\* their arguments in call order.
C9_RecorderTokens ==
    LET a == recLast.args
        op == recLast.op
    IN  /\ op \in {"moveTo", "lineTo", "bezierCurveTo", "quadraticCurveTo", "closePath", "rect"}
              => /\ Len(parts) = Len(recLast.before) + 1
                 /\ SubSeq(parts, 1, Len(recLast.before)) = recLast.before
        /\ op \in {"moveTo", "lineTo", "bezierCurveTo", "quadraticCurveTo", "closePath"}
              => Len(parts[Len(parts)]) = 1
        /\ op = "moveTo" => getPath(parts) = RecJoined("M " \o RecText(a[1]) \o " " \o RecText(a[2]))
        /\ op = "lineTo" => getPath(parts) = RecJoined("L " \o RecText(a[1]) \o " " \o RecText(a[2]))
        /\ op = "bezierCurveTo" =>
              getPath(parts) = RecJoined("C " \o RecText(a[1]) \o " " \o RecText(a[2]) \o " "
                                         \o RecText(a[3]) \o " " \o RecText(a[4]) \o " "
                                         \o RecText(a[5]) \o " " \o RecText(a[6]))
        /\ op = "quadraticCurveTo" =>
              getPath(parts) = RecJoined("Q " \o RecText(a[1]) \o " " \o RecText(a[2]) \o " "
                                         \o RecText(a[3]) \o " " \o RecText(a[4]))
        /\ op = "closePath" => getPath(parts) = RecJoined("Z")
        /\ op = "rect" =>
              getPath(parts) =
                  RecJoined("M " \o RecText(a[1]) \o " " \o RecText(a[2])
                            \o " L " \o RecText(a[1] + a[3]) \o " " \o RecText(a[2])
                            \o " L " \o RecText(a[1] + a[3]) \o " " \o RecText(a[2] + a[4])
                            \o " L " \o RecText(a[1]) \o " " \o RecText(a[2] + a[4])
                            \o " Z")
        /\ (op = "rect" /\ Len(recLast.before) = 0 /\ a[1] = 0 /\ a[3] = 10 /\ a[4] = 10)
              => getPath(parts) = "M 0 0 L 10 0 L 10 10 L 0 10 Z"

\* a lone rect(0, 0, 10, 10)
C9_Witness ==
    /\ recLast.op = "rect"
    /\ recLast.before = <<>>
    /\ recLast.args = <<0, 0, 10, 10>>
    /\ getPath(parts) = "M 0 0 L 10 0 L 10 10 L 0 10 Z"

\* the normalized sweep of the last arc call
RecArcSweep == ArcSweep(recLast.args[4], recLast.args[5], recLast.args[6])

\* the last call was an arc whose sweep is neither degenerate nor a full turn
RecPartialArc ==
    /\ recLast.op = "arc"
    /\ ~AngLt(RecArcSweep, Ang(0, ARC_DEGENERATE))
    /\ AngLt(RecArcSweep, AngSub(TwoPI, Ang(0, ARC_FULL_TOL)))

\* C10: an arc call whose normalized sweep is neither degenerate nor a full
\* turn emits a line to the arc's start point, then one endpoint-arc command
\* whose large-arc flag is 1 exactly when the sweep exceeds pi and whose
\* sweep flag is 0 when anticlockwise and 1 otherwise.
C10_PartialArcFlags ==
    RecPartialArc =>
        LET a == recLast.args
            n == Len(recLast.before)
            large == IF AngGt(RecArcSweep, MathPI) THEN 1 ELSE 0
            dir == IF a[6] THEN 0 ELSE 1
        IN  /\ Len(parts) = n + 2
            /\ SubSeq(parts, 1, n) = recLast.before
            /\ parts[n + 1] = << [c |-> "L", a |-> <<>>,
                                  p |-> <<ArcX(a[1], a[3], a[4]), ArcY(a[2], a[3], a[4])>>] >>
            /\ parts[n + 2] = << [c |-> "A", a |-> <<a[3], a[3], 0, large, dir>>,
                                  p |-> <<ArcX(a[1], a[3], a[5]), ArcY(a[2], a[3], a[5])>>] >>

\* an anticlockwise arc of exactly pi, flags 0 0, after an earlier call
C10_Witness ==
    /\ RecPartialArc
    /\ RecArcSweep = MathPI
    /\ recLast.args[6]
    /\ Len(recLast.before) > 0
    /\ parts[Len(parts)][1].a = <<5, 5, 0, 0, 0>>

\* the last call was an arc whose normalized sweep is a full turn
RecFullArc ==
    /\ recLast.op = "arc"
    /\ ~AngLt(RecArcSweep, AngSub(TwoPI, Ang(0, ARC_FULL_TOL)))

\* C11: an arc whose normalized sweep is a full turn emits, after a move to
\* its start point, exactly two endpoint-arc commands, both of radius r, with
\* large-arc flag 1 and the same sweep flag, the first ending at the point
\* antipodal to the start point and the second back at the start point.
C11_FullTurnTwoArcs ==
    RecFullArc =>
        LET a == recLast.args
            n == Len(recLast.before)
            dir == IF a[6] THEN 0 ELSE 1
            antipode == AngAdd(a[4], MathPI)
        IN  /\ Len(parts) = n + 3
            /\ SubSeq(parts, 1, n) = recLast.before
            /\ parts[n + 1] = << [c |-> "M", a |-> <<>>,
                                  p |-> <<ArcX(a[1], a[3], a[4]), ArcY(a[2], a[3], a[4])>>] >>
            /\ parts[n + 2] = << [c |-> "A", a |-> <<a[3], a[3], 0, 1, dir>>,
                                  p |-> <<ArcX(a[1], a[3], antipode),
                                          ArcY(a[2], a[3], antipode)>>] >>
            /\ parts[n + 3] = << [c |-> "A", a |-> <<a[3], a[3], 0, 1, dir>>,
                                  p |-> <<ArcX(a[1], a[3], a[4]), ArcY(a[2], a[3], a[4])>>] >>

\* a clockwise arc of 2*pi - 1e-6 from pi/2, after an earlier call
C11_Witness ==
    /\ RecFullArc
    /\ RecArcSweep = AngSub(TwoPI, Ang(0, ARC_FULL_TOL))
    /\ ~recLast.args[6]
    /\ recLast.args[4] = Ang(1, 0)
    /\ Len(recLast.before) > 0
    /\ Len(parts) = Len(recLast.before) + 3
    /\ parts[Len(parts)][1].a = <<5, 5, 0, 1, 1>>

\* the last call was an arc whose normalized sweep is below 1e-10
RecDegenerateArc ==
    /\ recLast.op = "arc"
    /\ AngLt(RecArcSweep, Ang(0, ARC_DEGENERATE))

\* C12: an arc whose normalized sweep is below 1e-10 (startAngle = endAngle,
\* for one) appends no command; what was recorded before the call is as it was.
C12_DegenerateArcSilent ==
    RecDegenerateArc =>
        /\ parts = recLast.before
        /\ getPath(parts) = getPath(recLast.before)

\* an arc with a sweep above zero and below 1e-10 after an earlier call
C12_Witness ==
    /\ RecDegenerateArc
    /\ RecArcSweep = Ang(0, 9)
    /\ Len(recLast.before) > 0
    /\ parts = recLast.before

\* C27: for every startAngle, endAngle and direction arc is called with,
\* the normalized sweep that decides between the degenerate, the single-arc
\* and the full-turn case is at least 0 and at most 2*pi.
C27_SweepInRange ==
    recLast.op = "arc" =>
        /\ AngGe(RecArcSweep, AngZero)
        /\ ~AngGt(RecArcSweep, TwoPI)

(***************************************************************************)
(* Properties of brush (SpecBrush)                                         *)
(***************************************************************************)
\* C7: brush on an element with ignore = true has no effect: the element
\* (its dirty bits and rendered flag included), every field of the scope and
\* the surface are as before, and no backend or drawing call is made,
\* whatever the element's bounds, kind or clip paths.
C7_IgnoredElementUntouched ==
    (brLast.op = "brush" /\ brLast.el.ignore) =>
        /\ brEl = brLast.el
        /\ brScope = brLast.scope
        /\ brCtx = brLast.ctx

\* an ignored, clipped, still dirty element brushed in the middle of a pass
C7_Witness ==
    /\ brLast.op = "brush"
    /\ brLast.el.ignore
    /\ brLast.el.clipPaths = Some(<<1>>)
    /\ IsSome(brLast.scope.prevEl)
    /\ brEl.dirty = REDRAW_BIT + SHAPE_CHANGED_BIT
    /\ ~brEl.isRendered
    /\ Len(brCtx.calls) > 0

\* the last step called brush, directly or from _doPaintEl
BrBrushed == brLast.op = "brush" \/ (brLast.op = "doPaintEl" /\ brLast.args[3])

BrNewCalls == SubSeq(brCtx.calls, Len(brLast.ctx.calls) + 1, Len(brCtx.calls))

\* the persisted sub-elements the last brush of a container had to paint
BrChildren ==
    IF brLast.el.kind = "incremental"
    THEN { i \in (brLast.el.cursor + 1)..Len(brLast.el.displayables) :
              ~brLast.el.displayables[i].ignore }
    ELSE {}

\* the last brush handed element id to the sketch backend
BrDispatched(id) == \E k \in 1..Len(BrNewCalls) : BrNewCalls[k].op = "rc.path" /\ BrNewCalls[k].el = id

\* C20: no element is skipped or marked not-rendered because of its clip
\* paths: the scope's allClipped is false whenever brush tests it, whatever
\* the clip paths of the element and of the one before it, so that every
\* non-ignored element, and every non-ignored sub-element of an incremental
\* container, is rendered, and a path with clip paths is handed to the
\* backend like one without.
C20_NeverAllClipped ==
    /\ ~brScope.allClipped
    /\ (BrBrushed /\ ~brLast.el.ignore) =>
          /\ brEl.isRendered
          /\ \A i \in BrChildren :
                /\ brEl.displayables[i].isRendered
                /\ brEl.displayables[i].kind = "path" => BrDispatched(brEl.displayables[i].id)
          /\ brLast.el \in ClippedPaths => BrDispatched(brLast.el.id)

\* a path with clip paths brushed after a path with other clip paths
C20_Witness ==
    /\ brLast.op = "brush"
    /\ brLast.el.clipPaths = Some(<<2>>)
    /\ brLast.scope.prevElClipPaths = Some(<<1>>)
    /\ ~brLast.el.ignore
    /\ brEl.isRendered
    /\ BrDispatched(brLast.el.id)

\* a container whose clipped sub-element was painted
C20_WitnessChild ==
    /\ BrBrushed
    /\ \E i \in BrChildren : brEl.displayables[i] # brLast.el.displayables[i]
                                /\ HasClipPaths(brEl.displayables[i].clipPaths)

\* the element brushed last and the sub-elements it carries
BrElements ==
    {brLast.el}
    \cup { brLast.el.displayables[i] : i \in 1..Len(brLast.el.displayables) }
    \cup { brLast.el.temporal[i] : i \in 1..Len(brLast.el.temporal) }

BrPlainColours == {"#000", "#f00", "#00f", "#0f0", "#333"}

\* the stroke the backend is to be given for a style
BrExpectedStroke(style) ==
    IF style.stroke \in BrPlainColours /\ style.lineWidth > 0 THEN style.stroke
    ELSE IF style.fill \in BrPlainColours THEN "#333"
    ELSE "none"

\* C8: for every geometry element handed to the sketch backend the stroke is
\* the declared stroke when that is a plain colour other than 'none' and
\* lineWidth > 0, else '#333' when the fill is a plain colour, else 'none';
\* a filled shape is never handed off with stroke 'none'.
C8_ResolvedStroke ==
    brLast.op = "brush" =>
        \A k \in 1..Len(BrNewCalls) :
            LET call == BrNewCalls[k]
            IN  call.op = "rc.path" =>
                  /\ \E e \in BrElements :
                        /\ e.id = call.el
                        /\ call.stroke = BrExpectedStroke(getStyle(e, brLast.scope.inHover))
                  /\ call.fill # "undefined" => call.stroke # "none"

\* a filled path with no stroke colour handed off with the dark outline
C8_Witness ==
    /\ brLast.op = "brush"
    /\ brLast.el.kind = "path"
    /\ brLast.el.style.stroke = "null"
    /\ brLast.el.style.fill = "#f00"
    /\ Len(BrNewCalls) > 0
    /\ BrNewCalls[Len(BrNewCalls)].op = "rc.path"
    /\ BrNewCalls[Len(BrNewCalls)].stroke = "#333"
    /\ BrNewCalls[Len(BrNewCalls)].fill = "#f00"

\* the shape whose recording brushPath replays for the element handed in:
\* rebuilt on the first draw or when the shape changed, else the one kept
BrRecordedShape ==
    IF ~IsSome(brLast.el.path) \/ HasBit(brLast.el.dirty, SHAPE_CHANGED_BIT)
    THEN brLast.el.shape ELSE Val(brLast.el.path)

\* the last step brushed a geometry element whose path descriptor is empty
BrEmptyPath ==
    /\ BrBrushed
    /\ brLast.el.kind = "path"
    /\ getPath(BuildPath(BrRecordedShape)) = ""

BrDrawOps == {"rc.path", "fillText", "strokeText", "drawImage"}

\* C29: when the path descriptor recorded for a geometry element is empty,
\* the brush of that element makes no call to the sketch backend and no
\* other call that draws on the surface.
C29_EmptyPathNotDrawn ==
    BrEmptyPath =>
        \A k \in 1..Len(BrNewCalls) : BrNewCalls[k].op \notin BrDrawOps

\* an arc of sweep zero, which records nothing: its brush bound the style
\* and drew nothing, after another element had been drawn
C29_Witness ==
    /\ BrEmptyPath
    /\ brLast.el.shape = "point"
    /\ Len(brLast.ctx.calls) > 0
    /\ \E k \in 1..Len(brLast.ctx.calls) : brLast.ctx.calls[k].op = "rc.path"
    /\ brEl.isRendered

\* the last step brushed an incremental container
BrContainer == BrBrushed /\ brLast.el.kind = "incremental" /\ ~brLast.el.ignore

\* the sub-elements brushIncremental is to go through, in its order: the
\* persisted ones from the cursor on, then the temporary ones
BrSubs ==
    SubSeq(brLast.el.displayables, brLast.el.cursor + 1, Len(brLast.el.displayables))
    \o brLast.el.temporal

\* the style bindings the last step made, one per sub-element drawn
BrBinds ==
    SelectSeq(BrNewCalls,
              LAMBDA c : c.op \in {"bindPathAndTextCommonStyle", "bindImageStyle"})

\* binding k was made for sub-element f[k], with the sub-element before it
\* in the loop as the scope's previous element: none for the first, and
\* none again where the clip paths change (graphic.ts 436-450)
BrBoundInOrder(f) ==
    /\ \A j, k \in DOMAIN f : j < k => f[j] < f[k]
    /\ { f[k] : k \in DOMAIN f } = { i \in 1..Len(BrSubs) : ~BrSubs[i].ignore }
    /\ \A k \in DOMAIN f :
          /\ BrBinds[k].el = BrSubs[f[k]].id
          /\ BrBinds[k].prevEl \in
                IF f[k] = 1 THEN {None} ELSE {None, Some(BrSubs[f[k] - 1].id)}
          /\ (BrBinds[k].prevEl = None) =>
                /\ BrBinds[k].forceSetAll
                /\ f[k] = 1 \/ BrSubs[f[k]].clipPaths # BrSubs[f[k] - 1].clipPaths

\* C30: the brush of an incremental container draws its persisted
\* sub-elements from its cursor on and then all its temporary sub-elements,
\* in that order and through one inner scope that begins with no previous
\* element; afterwards the temporary list is empty and notClear is set, and
\* the outer scope's prevElClipPaths and allClipped are what the container's
\* own clip steps left, whatever clip paths the sub-elements have.
C30_IncrementalContainer ==
    BrContainer =>
        /\ \E f \in [1..Len(BrBinds) -> 1..Len(BrSubs)] : BrBoundInOrder(f)
        /\ \A k \in 1..Len(BrNewCalls) :
              \E i \in 1..Len(BrSubs) : BrNewCalls[k].el = BrSubs[i].id /\ ~BrSubs[i].ignore
        /\ brEl.temporal = <<>>
        /\ brEl.notClear
        /\ Len(brEl.displayables) = Len(brLast.el.displayables)
        /\ brScope.prevElClipPaths = brLast.el.clipPaths
        /\ brScope.allClipped = brLast.scope.allClipped

\* a container with cursor 1 over a plain and a clipped sub-element and with
\* one temporary text: the clipped one and the text were drawn, the plain
\* one was not
C30_Witness ==
    /\ BrContainer
    /\ brLast.el.cursor = 1
    /\ brLast.el.displayables = <<ChildA, ChildClipped>>
    /\ brLast.el.temporal = <<ChildText>>
    /\ Len(BrBinds) = 2
    /\ BrBinds[1].el = ChildClipped.id /\ BrBinds[1].prevEl = None
    /\ BrBinds[2].el = ChildText.id
    /\ brScope.prevElClipPaths = None
    /\ brEl.temporal = <<>>

\* the kind of the element, among those the last step handled, that has this id
BrKindOf(id) == (CHOOSE e \in BrElements : e.id = id).kind

\* the kind of the previous element a style binding was given: a
\* sub-element of the container brushed, or the outer scope's previous element
BrPrevKind(call) ==
    IF \E e \in BrElements : e.id = Val(call.prevEl)
    THEN BrKindOf(Val(call.prevEl))
    ELSE Val(brLast.scope.prevEl).kind

\* the last step brushed a path, a text or an image that it did not skip
BrBoundOne ==
    /\ BrBrushed
    /\ ~brLast.el.ignore
    /\ brLast.el.kind \in {"path", "text", "image"}

\* the clip steps of the last brush restored the clip scope of the element before
BrClipRestored ==
    /\ HasClipPaths(brLast.scope.prevElClipPaths)
    /\ isClipPathChanged(brLast.el.clipPaths, brLast.scope.prevElClipPaths)

\* C31: within one scope the full style reset is forced for an element
\* exactly when the scope has no previous element (none was brushed yet, or
\* a clip scope was just restored) or the element's kind is not the scope's
\* last drawn kind; otherwise the style is diffed against the previous
\* element, and that element is of the same kind.  This for an element
\* brushed by the caller and for the sub-elements of a container.
C31_StyleResetExactly ==
    /\ BrBoundOne =>
          /\ Len(BrBinds) = 1
          /\ BrBinds[1].el = brLast.el.id
          /\ (BrBinds[1].prevEl = None) <=> (brLast.scope.prevEl = None \/ BrClipRestored)
          /\ BrBinds[1].forceSetAll <=>
                (BrBinds[1].prevEl = None
                 \/ DrawTypeOf(brLast.el.kind) # brLast.scope.lastDrawType)
          /\ brScope.lastDrawType = DrawTypeOf(brLast.el.kind)
    /\ BrBrushed =>
          \A k \in 1..Len(BrBinds) :
              ~BrBinds[k].forceSetAll =>
                  /\ BrBinds[k].prevEl # None
                  /\ BrPrevKind(BrBinds[k]) = BrKindOf(BrBinds[k].el)

(***************************************************************************)
(* Properties of RPainter (Spec, SpecPaintList)                            *)
(***************************************************************************)
\* the built-in layers whose [startIndex, endIndex) holds display-list index i
POwners(i) ==
    { z \in DOMAIN painter.layers :
        /\ painter.layers[z].builtin
        /\ painter.layers[z].startIndex <= i
        /\ i < painter.layers[z].endIndex }

\* C1: after _updateLayerStatus(list) the ranges of the built-in layers are
\* pairwise disjoint and their union is [0, list.length): every index of
\* the display list is owned by exactly one layer.
C1_LayerPartition ==
    pLast.op = "refresh" =>
        \A i \in 0..(Len(pLast.list) - 1) : Cardinality(POwners(i)) = 1

\* C2: a continuation whose token is not the painter's current _redrawId
\* returns at once: it changes nothing of the painter (no index, cursor or
\* flag, no brush) and schedules nothing; a continuation that does work
\* carries the current token.
C2_StaleContinuationNoOp ==
    [][ (pLast'.op = "continuation" /\ pending # <<>>) =>
            /\ pLast'.ran <=> (Head(pending).redrawId = redrawId)
            /\ ~pLast'.ran =>
                  /\ ~pLast'.scheduled
                  /\ painter' = painter
                  /\ pending' = Tail(pending)
                  /\ UNCHANGED <<displayList, prevDisplayList, redrawId>> ]_vars

\* a superseded continuation has fired and returned while the latest one waits
C2_Witness ==
    /\ pLast.op = "continuation"
    /\ ~pLast.ran
    /\ Len(pending) = 1
    /\ pending[1].redrawId = redrawId

\* the elements the refresh before the last one brushed in a main layer and
\* that are no longer in the display list, each with that layer
PRemoved ==
    { b \in passes[1].brushed : \A j \in 1..Len(passes[2].list) : passes[2].list[j] # b[1] }

\* the rectangle lists the last call computed for layer z
PRepaintRects(z) ==
    { painter.log[k].rects :
        k \in { j \in 1..Len(painter.log) : /\ painter.log[j].op = "createRepaintRects"
                                            /\ painter.log[j].z = z } }

PCovered(rects, r) == \E n \in 1..Len(rects) : RectContains(rects[n], r)

\* C6: in dirty-rectangle mode, for an element rendered in one refresh pass
\* and removed from the display list before the next, the next pass computes
\* the repaint rectangles of the element's layer and they cover the element's
\* previous paint rectangle.  A null result, after which the whole layer is
\* cleared, counts as covering; a rectangle that is not finite or has a zero
\* area has nothing to cover.
C6_RemovedRectCovered ==
    (pLast.op = "refresh" /\ painter.useDirtyRect) =>
        \A b \in PRemoved :
            LET r == Val(painter.store[b[1]].prevRect)
            IN  (RectIsFinite(r) /\ ~RectIsZero(r)) =>
                  /\ PRepaintRects(b[2]) # {}
                  /\ \A rects \in PRepaintRects(b[2]) :
                        IsSome(rects) => PCovered(Val(rects), r)

\* the entries the last call added to the log, by position
PLog == SubSeq(painter.log, pLast.from + 1, Len(painter.log))
PLogAt(op) == { k \in 1..Len(PLog) : PLog[k].op = op }

\* the last call was a _paintList pass that got past the token check
PPassRan == pLast.op \in {"refresh", "continuation"} /\ pLast.ran

\* the continuations pending under a token
PPendingOf(token) == { k \in 1..Len(pending) : pending[k].redrawId = token }

\* the z-levels the last pass copied onto the target surface, in the order of the copies
PCopied == [k \in 1..Len(SelectSeq(PLog, LAMBDA e : e.op = "drawImage")) |->
               Val(SelectSeq(PLog, LAMBDA e : e.op = "drawImage")[k].rects)]

PAscending(levels) == \A j, k \in 1..Len(levels) : j < k => levels[j] < levels[k]

\* the last call was a pass of a single-surface painter that composites manually
PManualPass == PPassRan /\ painter.singleCanvas /\ painter.needsManuallyCompositing

\* the pass cleared the target surface once, after the last brush of a main
\* layer and before the first copy, and every copy went to the target surface
PClearedBeforeCopies ==
    /\ Cardinality(PLogAt("clearRect")) = 1
    /\ \A c \in PLogAt("clearRect") :
          /\ PLog[c].z = CANVAS_ZLEVEL
          /\ \A k \in PLogAt("brush") : k < c
          /\ \A k \in PLogAt("drawImage") : c < k /\ PLog[k].z = CANVAS_ZLEVEL

\* C14 as stated: in single-surface mode with manual compositing, a pass clears
\* the target surface and then copies onto it every non-virtual built-in
\* sub-layer, in ascending z-level order.
C14_CompositesNonVirtual ==
    PManualPass =>
        /\ PClearedBeforeCopies
        /\ PAscending(PCopied)
        /\ PCopied = SelectSeq(painter.zlevelList,
                               LAMBDA z : painter.layers[z].builtin /\ ~painter.layers[z].virtual)

\* C14, amended: in single-surface mode with manual compositing, a pass clears
\* the target surface once, after the main layers are painted, and then copies
\* onto it every virtual built-in sub-layer, in ascending z-level order; the
\* target surface's own layer is not virtual and is not copied. A pass without
\* manual compositing clears and copies nothing this way.
C14_CompositesVirtual ==
    /\ PManualPass =>
          /\ PClearedBeforeCopies
          /\ PAscending(PCopied)
          /\ PCopied = SelectSeq(painter.zlevelList,
                                 LAMBDA z : painter.layers[z].builtin /\ painter.layers[z].virtual)
          /\ \A k \in 1..Len(PCopied) : PCopied[k] # CANVAS_ZLEVEL
    /\ (PPassRan /\ ~painter.needsManuallyCompositing) =>
          PLogAt("clearRect") = {} /\ PLogAt("drawImage") = {}

C14_Witness ==
    /\ pLast.op = "refresh"
    /\ PManualPass
    /\ Len(PCopied) >= 2
    /\ \E z \in DOMAIN painter.layers : painter.layers[z].builtin /\ ~painter.layers[z].virtual

\* the layer handed to insertLayer is neither built-in nor has both functions
PInvalidLayer(layer) == ~layer.builtin /\ (~layer.hasResize \/ ~layer.hasRefresh)

\* C15: insertLayer(zlevel, layer) with a z-level already present in _layers,
\* or with a layer that is not built-in and lacks a resize or a refresh
\* function, leaves _layers, _zlevelList and every existing layer (the whole
\* painter) unchanged; any other call registers the layer at that z-level.
C15_RejectedInsertLayer ==
    [][ pLast'.op = "insertLayer" =>
            IF HasLayer(painter, pLast'.args[1]) \/ PInvalidLayer(pLast'.args[2])
            THEN /\ painter'.layers = painter.layers
                 /\ painter'.zlevelList = painter.zlevelList
                 /\ painter' = painter
            ELSE /\ HasLayer(painter', pLast'.args[1])
                 /\ painter'.layers[pLast'.args[1]] = pLast'.args[2]
                 /\ \A z \in DOMAIN painter.layers : painter'.layers[z] = painter.layers[z]
      ]_vars

\* an invalid layer was refused at a free z-level while other layers exist
C15_Witness ==
    /\ pLast.op = "insertLayer"
    /\ ~HasLayer(painter, pLast.args[1])
    /\ PInvalidLayer(pLast.args[2])
    /\ Len(painter.zlevelList) >= 2

\* a valid layer was refused at a z-level in use
C15_WitnessInUse ==
    /\ pLast.op = "insertLayer"
    /\ HasLayer(painter, pLast.args[1])
    /\ ~PInvalidLayer(pLast.args[2])
    /\ painter.layers[pLast.args[1]] # pLast.args[2]

\* brushes j and k of the last pass are of one layer, j before k
PBrushedInOrder(j, k) ==
    /\ j \in PLogAt("brush") /\ k \in PLogAt("brush")
    /\ j < k
    /\ PLog[j].z = PLog[k].z

\* no repaint rectangle of that layer is entered between log entries j and k
PSameLoop(j, k) == \A c \in PLogAt("clip") : ~(j < c /\ c < k /\ PLog[c].z = PLog[j].z)

\* C16 as stated: within one layer's pass no element is brushed after an
\* element of higher display-list index brushed in the same pass, for full
\* repaints and for partial repaints with several repaint rectangles alike.
C16_BrushOrder ==
    PPassRan => \A j, k \in 1..Len(PLog) :
                   PBrushedInOrder(j, k) => PLog[j].i <= PLog[k].i

\* C16, amended: within one run of a layer's repaint loop (the whole layer
\* when there is no repaint rectangle list, one repaint rectangle otherwise)
\* elements are brushed in strictly increasing display-list index order and
\* each at most once; the loop starts again for every repaint rectangle, so
\* across the rectangles of one pass the indices may go back.
C16_BrushOrderPerLoop ==
    PPassRan => \A j, k \in 1..Len(PLog) :
                   (PBrushedInOrder(j, k) /\ PSameLoop(j, k)) =>
                       /\ PLog[j].i < PLog[k].i
                       /\ PLog[j].rects = PLog[k].rects

\* a pass with two repaint rectangles brushed two elements in the second one
C16_Witness ==
    /\ pLast.op = "refresh"
    /\ Cardinality({ c \in PLogAt("clip") : PLog[c].z = 0 }) = 2
    /\ \E j, k \in 1..Len(PLog) :
          /\ PBrushedInOrder(j, k) /\ PSameLoop(j, k)
          /\ \E c \in PLogAt("clip") : c < j /\ PLog[c].z = PLog[j].z
          /\ \E i, c \in 1..Len(PLog) : PBrushedInOrder(i, j) /\ i < c /\ c < j /\ ~PSameLoop(i, j)

\* the entries a call added to the log of painter p
PLogOf(p, last) == SubSeq(p.log, last.from + 1, Len(p.log))
PLogOfAt(p, last, op) == { k \in 1..Len(PLogOf(p, last)) : PLogOf(p, last)[k].op = op }

\* what a pass does to the main layers and to the target surface
PMainOps == {"createRepaintRects", "clear", "clip", "brush", "break", "needsRefreshHover",
             "clearRect", "drawImage"}

\* the ids of the elements of list flagged __inHover, in list order
PHoverEls(p, list) == SelectSeq(list, LAMBDA id : p.store[id].inHover)

\* the hover pass of a call that found hoverBefore as _hoverlayer: the surface
\* of a hover layer that existed is cleared whole, once, and then exactly the
\* flagged elements are brushed on the hover layer in list order, with a
\* scope of the pass whose inHover is true, after everything else
PHoverPassRan(hoverBefore, p, last) ==
    /\ [k \in 1..Len(SelectSeq(PLogOf(p, last), LAMBDA e : e.op = "brushHover")) |->
           SelectSeq(PLogOf(p, last), LAMBDA e : e.op = "brushHover")[k].el]
          = PHoverEls(p, last.list)
    /\ \A k \in PLogOfAt(p, last, "brushHover") :
          /\ PLogOf(p, last)[k].inHover
          /\ PLogOf(p, last)[k].fresh <=> (\A j \in PLogOfAt(p, last, "brushHover") : k <= j)
          /\ p.hoverlayer = Some(PLogOf(p, last)[k].z)
          /\ \A j \in 1..Len(PLogOf(p, last)) :
                PLogOf(p, last)[j].op \in PMainOps \cup {"clearHover"} => j < k
    /\ \A c \in PLogOfAt(p, last, "clearHover") :
          /\ hoverBefore = Some(PLogOf(p, last)[c].z)
          /\ PLogOf(p, last)[c].rects = None
          /\ \A j \in 1..Len(PLogOf(p, last)) : PLogOf(p, last)[j].op \in PMainOps => j < c
    /\ Cardinality(PLogOfAt(p, last, "clearHover")) = IF IsSome(hoverBefore) THEN 1 ELSE 0

PBrushedOn(z) ==
    [k \in 1..Len(SelectSeq(PLog, LAMBDA e : e.op = "brush" /\ e.z = z)) |->
        SelectSeq(PLog, LAMBDA e : e.op = "brush" /\ e.z = z)[k].i]

\* the indices brushed on layer z inside repaint rectangle r
PBrushedIn(z, r) == { PLog[k].i : k \in { j \in PLogAt("brush") : PLog[j].z = z /\ PLog[j].rects = Some(r) } }

\* the range of layer z, and the part of it whose paint rectangles meet r
PRange(z) == painter.layers[z].startIndex .. (painter.layers[z].endIndex - 1)
PRangeIn(z, r) ==
    { i \in PRange(z) : RectIntersect(painter.store[pLast.list[i + 1]].rect, r) }

\* layer z was painted over its whole range: without a repaint rectangle
\* list every index from startIndex on once, in order; with one, inside each
\* rectangle every index of the range whose element meets the rectangle
PWholeRange(z) ==
    IF ~painter.useDirtyRect \/ PRepaintRects(z) = {None}
    THEN PBrushedOn(z) = [k \in 1..Cardinality(PRange(z)) |-> painter.layers[z].startIndex + k - 1]
    ELSE /\ Cardinality(PRepaintRects(z)) = 1
         /\ \A rects \in PRepaintRects(z) :
               /\ \A n \in 1..Len(Val(rects)) :
                     PBrushedIn(z, Val(rects)[n]) = PRangeIn(z, Val(rects)[n])
               /\ \A k \in PLogAt("brush") :
                     PLog[k].z = z => \E n \in 1..Len(Val(rects)) : PLog[k].rects = Some(Val(rects)[n])

\* C19: every refresh() call paints with paintAll set: each built-in layer
\* other than the hover layer, dirty or not, is painted from its startIndex
\* over its whole range (in dirty-rectangle mode inside the repaint
\* rectangles), ends the call with drawIndex = endIndex, and the call
\* schedules no continuation.
C19_RefreshPaintsAll ==
    pLast.op = "refresh" =>
        /\ pLast.ran
        /\ ~pLast.scheduled
        /\ pending = <<>>
        /\ \A z \in DOMAIN painter.layers :
              (painter.layers[z].builtin /\ painter.hoverlayer # Some(z)) =>
                  /\ painter.layers[z].drawIndex = painter.layers[z].endIndex
                  /\ PWholeRange(z)

\* a layer that is not dirty was painted again by a refresh
C19_Witness ==
    /\ pLast.op = "refresh"
    /\ \E z \in DOMAIN painter.layers :
          /\ painter.layers[z].builtin /\ painter.hoverlayer # Some(z)
          /\ ~painter.layers[z].dirty
          /\ Len(PBrushedOn(z)) >= 2

\* the layers the last pass painted whose drawIndex was -1 when their
\* painting began, and the other layers it painted
PLostCursor == { k \in 1..Len(painter.cursors) : painter.cursors[k].drawIndex = 0 - 1 }
PKeptCursor == { k \in 1..Len(painter.cursors) : painter.cursors[k].drawIndex >= 0 }

\* layer z was painted from index start on
PPaintedFrom(z, start) ==
    /\ \A n \in 1..Len(PBrushedOn(z)) : PBrushedOn(z)[n] >= start
    /\ (~painter.useDirtyRect /\ start < painter.layers[z].endIndex) =>
           (Len(PBrushedOn(z)) >= 1 /\ PBrushedOn(z)[1] = start)

PCursorInRange(k) ==
    /\ painter.layers[painter.cursors[k].z].startIndex <= painter.cursors[k].drawIndex
    /\ painter.cursors[k].drawIndex <= painter.layers[painter.cursors[k].z].endIndex

\* the index the painting of the layer of entry k starts from
PStartOf(k) ==
    IF painter.cursors[k].paintAll THEN painter.layers[painter.cursors[k].z].startIndex
    ELSE painter.cursors[k].drawIndex

\* C32 as stated: in every pass each layer selected for painting has, when
\* its painting begins, a drawIndex with startIndex <= drawIndex <= endIndex,
\* never -1.
C32_CursorInRange ==
    PPassRan => \A k \in 1..Len(painter.cursors) : PCursorInRange(k)

\* C32: in every pass each layer selected because it is dirty has, when its
\* painting begins, a drawIndex with startIndex <= drawIndex <= endIndex,
\* never -1; a layer selected only because of paintAll can carry -1, and
\* only an incremental layer that is not dirty does; the index painting
\* starts from is in [startIndex, endIndex] for every layer.
C32_DirtyCursorInRange ==
    PPassRan =>
        \A k \in 1..Len(painter.cursors) :
            /\ (painter.layers[painter.cursors[k].z].dirty \/ ~painter.cursors[k].paintAll)
                  => PCursorInRange(k)
            /\ ~PCursorInRange(k) =>
                  /\ painter.cursors[k].drawIndex = 0 - 1
                  /\ painter.layers[painter.cursors[k].z].incremental
            /\ painter.layers[painter.cursors[k].z].startIndex <= PStartOf(k)
            /\ PStartOf(k) <= painter.layers[painter.cursors[k].z].endIndex

\* a pass without paintAll painted a dirty incremental layer that begins
\* after index 0 from its startIndex
C32_Witness ==
    /\ PPassRan
    /\ \E k \in 1..Len(painter.cursors) :
          /\ ~painter.cursors[k].paintAll
          /\ painter.layers[painter.cursors[k].z].incremental
          /\ painter.layers[painter.cursors[k].z].dirty
          /\ painter.cursors[k].drawIndex = painter.layers[painter.cursors[k].z].startIndex
          /\ painter.layers[painter.cursors[k].z].startIndex > 0

\* C33: the clip scopes are balanced: after every paint pass, whatever the
\* clip-path lists of the elements (none, empty or non-empty) and of the
\* sub-elements of incremental containers, the save stack of every surface
\* is as deep as before the pass, which from the painter's construction on
\* is empty, and no restore was made below that depth.
C33_ClipBalanced ==
    pLast.op = "refresh" =>
        \A z \in DOMAIN painter.ctx :
            painter.ctx[z].depth = 0 /\ ~painter.ctx[z].underflow

\* layer z as the call found it; a layer the call created, as its constructor left it
PLayerBefore(before, z) == IF z \in DOMAIN before.layers THEN before.layers[z] ELSE NewLayer(z)

\* an element in the range layer z has after the call had, when the call
\* began, its REDRAW bit set and was not flagged __inHover
PRedrawInRange(before, after, list, z) ==
    \E i \in after.layers[z].startIndex .. (after.layers[z].endIndex - 1) :
        /\ i < Len(list)
        /\ HasBit(before.store[list[i + 1]].dirty, REDRAW_BIT)
        /\ ~before.store[list[i + 1]].inHover

\* the range of layer z is not the one it had before the call
PRangeChanged(before, after, z) ==
    \/ after.layers[z].startIndex # PLayerBefore(before, z).startIndex
    \/ after.layers[z].endIndex # PLayerBefore(before, z).endIndex

\* the built-in layers _updateLayerStatus saw: all but a hover layer that the
\* hover pass of the same call created afterwards
PStatusLayers(before, after) ==
    { z \in DOMAIN after.layers :
        /\ after.layers[z].builtin
        /\ ~(z \notin DOMAIN before.layers /\ after.hoverlayer = Some(z)) }

\* C21: after _updateLayerStatus a built-in layer is dirty exactly when its
\* startIndex or endIndex differs from its value before the call, or some
\* element in its range has the REDRAW bit set and is not flagged __inHover;
\* every other built-in layer is not dirty.
C21_DirtyExactly ==
    [][ pLast'.op = "refresh" =>
            \A z \in PStatusLayers(painter, painter') :
                painter'.layers[z].dirty <=>
                    (PRangeChanged(painter, painter', z)
                     \/ PRedrawInRange(painter, painter', pLast'.list, z))
      ]_vars

\* the element at index i (from 0) of the list of the last call
PElAt(i) == painter.store[pLast.list[i + 1]]

\* the key the layer of the element at index i is to have
PExpectedKey(i) ==
    IF PElAt(i).incremental THEN PElAt(i).zlevel + INCREMENTAL_INC
    ELSE IF \E j \in 0..(i - 1) : PElAt(j).zlevel = PElAt(i).zlevel /\ PElAt(j).incremental
         THEN PElAt(i).zlevel + EL_AFTER_INCREMENTAL_INC
         ELSE PElAt(i).zlevel

\* C22: in multi-surface mode, or in single-surface mode with manual
\* compositing, _updateLayerStatus assigns an incremental element at z-level
\* z to the layer keyed z + 0.001, a non-incremental element that comes after
\* an incremental element of the same z to the layer keyed z + 0.01, and any
\* other element to the layer keyed z.
C22_LayerKeys ==
    (pLast.op = "refresh" /\ (~painter.singleCanvas \/ painter.needsManuallyCompositing)) =>
        /\ Len(painter.assigned) = Len(pLast.list)
        /\ \A i \in 0..(Len(pLast.list) - 1) :
              /\ painter.assigned[i + 1] = PExpectedKey(i)
              /\ HasLayer(painter, PExpectedKey(i))

\* a plain element, an incremental one and a plain one behind it, all of one z-level
C22_Witness ==
    /\ pLast.op = "refresh"
    /\ painter.singleCanvas /\ painter.needsManuallyCompositing
    /\ Len(pLast.list) = 3
    /\ ~PElAt(0).incremental /\ PElAt(1).incremental /\ ~PElAt(2).incremental
    /\ PElAt(0).zlevel = PElAt(2).zlevel
    /\ painter.assigned = <<PElAt(0).zlevel, PElAt(0).zlevel + INCREMENTAL_INC,
                            PElAt(0).zlevel + EL_AFTER_INCREMENTAL_INC>>

\* C23: in single-surface mode, after _updateLayerStatus on a display list
\* that holds an incremental element (at any index, index 0 included) or
\* elements of two z-levels, manual compositing is enabled, and no
\* incremental element is assigned to the layer of the target surface.
C23_CompositingEnabled ==
    (/\ pLast.op = "refresh"
     /\ painter.singleCanvas
     /\ \E i, j \in 0..(Len(pLast.list) - 1) :
           PElAt(i).incremental \/ PElAt(i).zlevel # PElAt(j).zlevel) =>
        /\ painter.needsManuallyCompositing
        /\ \A i \in 0..(Len(pLast.list) - 1) :
              PElAt(i).incremental => painter.assigned[i + 1] # CANVAS_ZLEVEL

\* C13: when a pass with paintAll false stops painting an incremental layer
\* because the 15 ms budget is exceeded, no further element of that layer
\* is brushed by that loop, the layer's drawIndex stays below its endIndex,
\* the pass is unfinished and exactly one continuation is scheduled, with the
\* token of the pass; a pass that finishes schedules none; no token ever has
\* more than one continuation pending.
C13_BudgetExceededYields ==
    /\ \A token \in 0..(MaxPending + 2) : Cardinality(PPendingOf(token)) <= 1
    /\ PPassRan =>
          /\ \A k \in PLogAt("break") :
                /\ painter.layers[PLog[k].z].incremental
                /\ painter.layers[PLog[k].z].drawIndex < painter.layers[PLog[k].z].endIndex
                /\ k < Len(PLog) => ~(PLog[k + 1].op = "brush" /\ PLog[k + 1].z = PLog[k].z)
                /\ pLast.scheduled
          /\ pLast.scheduled =>
                /\ Cardinality(PPendingOf(redrawId)) = 1
                /\ pending[Len(pending)].redrawId = redrawId
                /\ ~pending[Len(pending)].paintAll
                /\ \E z \in DOMAIN painter.layers :
                      painter.layers[z].drawIndex < painter.layers[z].endIndex
          /\ ~pLast.scheduled => PPendingOf(redrawId) = {}

\* a continuation met the budget again in a layer of two elements, after the
\* first of them, and is pending once more
C13_Witness ==
    /\ pLast.op = "continuation"
    /\ pLast.ran
    /\ pLast.scheduled
    /\ \E k \in PLogAt("break") :
          /\ PLog[k].i = 0
          /\ painter.layers[PLog[k].z].endIndex = 2
    /\ Len(pending) = 1

(***************************************************************************)
(* The layer list (SpecLayers)                                             *)
(***************************************************************************)
PListLevels == { painter.zlevelList[i] : i \in 1..Len(painter.zlevelList) }

\* C34: after any sequence of getLayer, insertLayer and delLayer calls,
\* _zlevelList is strictly ascending, so without duplicates, and holds
\* exactly the z-levels that are keys of _layers.
C34_ZlevelListSorted ==
    /\ \A i \in 1..(Len(painter.zlevelList) - 1) :
          painter.zlevelList[i] < painter.zlevelList[i + 1]
    /\ PListLevels = DOMAIN painter.layers

\* a layer was put between two others
C34_Witness ==
    /\ pLast.op \in {"getLayer", "insertLayer"}
    /\ Len(painter.zlevelList) = 3
    /\ painter.zlevelList[2] = pLast.args[1]
    /\ pSteps = 5

(***************************************************************************)
(* The hover layer (Spec)                                                  *)
(***************************************************************************)
\* C35: after any sequence of refresh and refreshHover calls, in either
\* mode, the hover layer is none of the layers _updateLayerStatus assigned a
\* display-list index to.
C35_HoverLayerOwnsNothing ==
    IsSome(painter.hoverlayer) =>
       \A k \in 1..Len(painter.assigned) : painter.assigned[k] # Val(painter.hoverlayer)

(***************************************************************************)
(* Termination of the continuations (SpecFrames)                           *)
(***************************************************************************)
\* the last _paintList call reported finished: it scheduled nothing and
\* called afterBrush on every layer
PFinishedPass ==
    /\ PPassRan
    /\ ~pLast.scheduled
    /\ pending = <<>>
    /\ \A z \in DOMAIN painter.layers :
          painter.layers[z].builtin =>
             /\ painter.layers[z].prevStartIndex = Some(painter.layers[z].startIndex)
             /\ painter.layers[z].prevEndIndex = Some(painter.layers[z].endIndex)

RecStartedByMoveRectArc ==
    \/ recCalls = 1 /\ recLast.op \in {"moveTo", "rect", "arc"}
    \/ recCalls > 1 /\ Len(recLast.before) = 0
    \/ /\ recCalls > 1
       /\ Len(recLast.before) > 0
       /\ (recLast.before[1][1].c = "M" \/ recLast.before[1][1].p # <<>>)

\* the letter getPath()'s descriptor begins with
RecFirstLetter == FlattenParts(parts)[1].c

\* C37: every non-empty descriptor getPath returns begins with a move
\* command, for any sequence of recorder calls whose first call is moveTo,
\* rect or arc.
C37_BeginsWithMove ==
    (RecStartedByMoveRectArc /\ getPath(parts) # "") => RecFirstLetter = "M"

(***************************************************************************)
(* The range of the last completed pass (SpecPaintList)                    *)
(***************************************************************************)
PPrevRange(layer) == <<layer.prevStartIndex, layer.prevEndIndex>>

\* C38: a layer's __prevStartIndex and __prevEndIndex change only in a
\* _paintList call that reports finished, which sets them on every layer to
\* the layer's startIndex and endIndex; a pass that is not finished and a
\* stale continuation leave them as they were, so they are the range of the
\* last completed pass.
C38_PrevRangeOfFinishedPass ==
    [][ LET finished == /\ pLast'.op \in {"refresh", "continuation"}
                        /\ pLast'.ran
                        /\ ~pLast'.scheduled
        IN  /\ finished =>
                 \A z \in DOMAIN painter'.layers :
                    painter'.layers[z].builtin =>
                       PPrevRange(painter'.layers[z]) =
                          <<Some(painter'.layers[z].startIndex), Some(painter'.layers[z].endIndex)>>
            /\ ~finished =>
                 /\ \A z \in (DOMAIN painter'.layers) \cap (DOMAIN painter.layers) :
                       PPrevRange(painter'.layers[z]) = PPrevRange(painter.layers[z])
                 /\ \A z \in (DOMAIN painter'.layers) \ (DOMAIN painter.layers) :
                       PPrevRange(painter'.layers[z]) = <<None, None>> ]_vars

\* a pass that was not finished moved the end of a layer's range and left
\* the range of the last completed pass in place
C38_Witness ==
    /\ PPassRan
    /\ pLast.scheduled
    /\ \E z \in DOMAIN painter.layers :
          /\ IsSome(painter.layers[z].prevEndIndex)
          /\ Val(painter.layers[z].prevEndIndex) # painter.layers[z].endIndex

=============================================================================
